---------------------------- MODULE Spec2Model ----------------------------
(***************************************************************************)
(* GSPy solver driver (src/src/gspy/core/system.py) with a single-spool    *)
(* turbojet component list, as assembled in                                 *)
(* src/projects/turbojet/turbojet_Ncontrol.py:                              *)
(*   Ambient, Control, Inlet, Compressor, Combustor, Turbine, Duct, Nozzle. *)
(*                                                                         *)
(* Numbers.  State multipliers and residuals are floats in the program;    *)
(* here they are fixed-point integers with One standing for 1.0, so that   *)
(* ErrorTolerance (0.0001) is One \div 10000.  Fuel flows are in units of   *)
(* 0.01 kg/s.  The thermodynamics behind a residual (Cantera, the maps) is *)
(* outside the repository: the value a component writes into its residual  *)
(* slot during an off-design walk is drawn from ErrVals, and a walk may    *)
(* raise inside one of the components of ODRaisers.                        *)
(*                                                                         *)
(* Powers are in units in which the compressor absorbs PWcdes at every     *)
(* point and the mechanical efficiency of the turbine is 1; thrust and     *)
(* ram drag contributions are the fixed amounts FGnozzle and RDinlet.      *)
(*                                                                         *)
(* The Control is a TControl (open loop, or closed loop on the shaft speed *)
(* N1%) or a TAMcontrol with the fuel flow as power setting; the drivers   *)
(* are explored with the open-loop TControl and the TAMcontrol, single     *)
(* walks (Do_Run) also with the closed-loop TControl and with a turbine    *)
(* that is not of type 'GG'.  Inlet, compressor and                        *)
(* exhaust nozzle follow src/f_inlet.py, src/f_compressor.py and           *)
(* src/f_exhaustnozzle.py.  The callers set fsys.Mode before each run      *)
(* (turbojet_Ncontrol.py lines 89 and 97); that assignment is part of the  *)
(* actions Run_DP_simulation and Run_OD_simulation.                        *)
(***************************************************************************)
EXTENDS Integers, Sequences, FiniteSets, TLC

\* ------------------------------------------------------------ bounds ----
MaxPoints == 2      \* longest OD sweep that is enumerated
MaxRuns   == 3      \* Run_DP_simulation / Run_OD_simulation calls per behaviour

\* ------------------------------------------------- program constants ----
One            == 20000              \* the literal 1 appended to fsys.states
ErrorTolerance == One \div 10000     \* system.py: ErrorTolerance = 0.0001
maxiter        == 50                 \* system.py: maxiter=50
NoError          == 0
ConvergenceError == 1
ExceptionError   == 2
Wfdes          == 38                 \* combustor Wfdes 0.38 kg/s (units 0.01)
PWcdes         == One                \* power the compressor takes from the shaft
FGnozzle       == 2 * One            \* gross thrust the nozzle adds in a walk
RDinlet        == One \div 2         \* ram drag the inlet adds in a walk at the usual flight speed

\* values the Newton-Krylov iterate takes: 1.0, one step of 5e-5 away from
\* it (inside the relative step tolerance), and 0.5 (a large step)
StateVals == {One, One + 1, One \div 2}
\* values a residual evaluates to: exactly zero, or five times the tolerance
ErrVals   == {0, 5 * ErrorTolerance}

Abs(n) == IF n < 0 THEN -n ELSE n
SetMax(S) == CHOOSE m \in S : \A n \in S : n <= m
\* scipy maxnorm: np.absolute(x).max()
MaxNorm(v) == SetMax({Abs(v[i]) : i \in DOMAIN v})
Uniform(n, v) == [i \in 1..n |-> v]

VARIABLES
    control,                \* the Control component of the model (its sweep)
    points_output_interval, \* fsys.points_output_interval
    dpRaiseAt,              \* the component whose design-point Run raises (0: none)
    TurbineType,            \* TurbineType of the turbine: 'GG' or 'PT'
    MapFileName,            \* the map file the turbine is constructed with
    Mode,                   \* fsys.Mode
    states, errors,         \* fsys.states, fsys.errors
    WF, FG, RD,             \* fsys.WF, fsys.FG, fsys.RD: system totals
    shaft_list,             \* fsys.shaft_list: ShaftNr and PW_sum of every shaft
    reg,                    \* index attributes the components create at DP
    output_dict,            \* fsys.output_dict
    OutputTable,            \* fsys.OutputTable, one record per row
    inputpoints,            \* fsys.inputpoints
    pc,                     \* "idle", or "loop" inside Run_OD_simulation
    k,                      \* number of for-loop iterations completed
    successcount, failedcount,
    x0,                     \* initial guess handed to the last root() call
    solution,               \* result of the last root() call of this sweep
    result,                 \* summary line and return value of the last Run_OD_simulation
    nruns,
    turbo_components,       \* the turbo components of a system model, in walk order
    shaft_istate,           \* shaft.istate of the shaft of every ShaftNr (0: not set)
    V,                      \* fsys.Ambient.V, the flight speed: the ram drag of the inlet flow
    combustor_Wf,           \* self.Wf of the combustor
    returned,               \* the walks done: PointTime, states_par and the errors returned
    fan,                    \* the attributes of a TFan and its two GasOut mass flows
    mapfile,                \* the header token of every keyword grid of a map file
    grids,                  \* the grids read from the map file so far
    current_model,          \* gspy_api._current_model
    api_result,             \* the API function called last and the exception it raised
    shaft_made_by,          \* for every entry of fsys.shaft_list, the model instance that made it
    ninstances              \* model instances constructed by initProg so far

vars == <<control, points_output_interval, dpRaiseAt, TurbineType,
          MapFileName, Mode, states, errors, WF, FG, RD, shaft_list, reg,
          output_dict, OutputTable, inputpoints, pc, k, successcount,
          failedcount, x0, solution, result, nruns, turbo_components,
          shaft_istate, V, combustor_Wf, returned, fan, mapfile, grids,
          current_model, api_result, shaft_made_by, ninstances>>

\* the variables of the turbojet model and of its drivers
corevars == <<control, points_output_interval, dpRaiseAt, TurbineType,
              MapFileName, Mode, states, errors, WF, FG, RD, shaft_list, reg,
              output_dict, OutputTable, inputpoints, pc, k, successcount,
              failedcount, x0, solution, result, nruns>>
\* the variables the turbojet model does not use, and their value in it
walkvars == <<turbo_components, shaft_istate, V, combustor_Wf, returned>>
\* the variables of the fan, of the map reader and of the API
apivars == <<current_model, api_result, shaft_made_by, ninstances>>
mapvars == <<mapfile, grids>>
extvars == <<walkvars, fan, mapvars, apivars>>

\* a TFan before its first Run
NoFan == [GasIn_mass |-> 0, BPR |-> 0, W_core_in |-> 0, W_duct_in |-> 0,
          W_core |-> 0, W_duct |-> 0, GasOut_mass |-> 0, GasOut_duct_mass |-> 0,
          PW |-> 0, Wdes |-> 0, Wdes_core_in |-> 0, Wdes_duct_in |-> 0,
          istate_n |-> 0, istate_BPR |-> 0, istate_beta_core |-> 0,
          istate_beta_duct |-> 0, ierror_wc_core |-> 0, ierror_wc_duct |-> 0]
\* _current_model = None
NoModel == [model_name |-> "None", initialized |-> FALSE, instance |-> 0, runs |-> 0]
NoCall == [function |-> "None", error |-> "None"]
\* the fan, the map reader and the API before anything is done with them
FanMapApiIdle ==
    /\ fan = NoFan
    /\ mapfile = <<>>
    /\ grids = <<>>
    /\ current_model = NoModel
    /\ api_result = NoCall
    /\ shaft_made_by = <<>>
    /\ ninstances = 0

ExtIdle ==
    /\ FanMapApiIdle
    /\ turbo_components = <<>>
    /\ shaft_istate = <<>>
    /\ V = RDinlet
    /\ combustor_Wf = 0
    /\ returned = {}

\* ------------------------------------------------------ system model ----
\* fsys.system_model of the turbojet; the Control is a TControl (open loop
\* fuel-flow sweep) or a TAMcontrol (adaptive-model input file).
system_model == <<"Ambient", control.kind, "Inlet", "Compressor", "Combustor",
                  "Turbine", "Duct", "ExhaustNozzle">>

\* component in which an off-design Run can raise for numerical reasons
\* (Cantera equilibrium): the combustor
ODRaisers == {5}
\* component whose design-point Run does not complete in a model whose map
\* file cannot be read: the turbine
DPRaisers == {6}

\* map files: one that can be read, a file name under which there is no
\* file, and a file no line of which holds the '99' of the header
MapFiles == {"present", "missing", "noheader"}

\* TMap.ReadMap: the header line is searched with 'while not '99' in line',
\* which at the end of a file reads '' for ever; FileNotFoundError is caught,
\* a message printed and None returned
TMap_ReadMap(filename) ==
    CASE filename = "missing"  -> "None"
      [] filename = "noheader" -> "hang"
      [] OTHER                 -> "read"

\* TTurboMap.ReadMap: amaptype, amaptitle, amapfile = super().ReadMap(filename)
\* raises TypeError when None is returned
TTurboMap_ReadMap(filename) ==
    IF TMap_ReadMap(filename) = "None" THEN "TypeError"
    ELSE TMap_ReadMap(filename)

RegNames == {"am_input", "first_map_mod_stateindex", "istate_wc", "istate_n",
             "istate_beta_c", "ierror_wc_c", "istate_beta_t", "ierror_wc_t",
             "ierror_shaftpw", "ierror_w", "istate_control", "ierror_control",
             "DP_controlparvalue", "PWdes", "istate_Wf", "ierror_N1",
             "N1_DP"}

\* np.append(fsys.states, 1) / np.append(fsys.errors, 0)
AppendState(w) == [w EXCEPT !.states = Append(@, One)]
AppendError(w) == [w EXCEPT !.errors = Append(@, 0)]
\* self.<name> = fsys.states.size-1 (the index of the entry just appended)
SetStateIndex(w, name) == [w EXCEPT !.reg[name] = Len(w.states)]
SetErrorIndex(w, name) == [w EXCEPT !.reg[name] = Len(w.errors)]
\* fsys.errors[self.<name>] = value
WriteError(w, name, value) == [w EXCEPT !.errors[w.reg[name]] = value]

\* fsys.shaft_list once the turbo components are constructed: compressor and
\* turbine name the same ShaftNr, so the list holds one shaft
NewShafts == << [ShaftNr |-> 1, PW_sum |-> 0] >>

\* shaft = fsys.get_shaft(ShaftNr); shaft.PW_sum = shaft.PW_sum + pw
AddShaftPower(w, ShaftNr, pw) ==
    [w EXCEPT !.shaft_list =
        [i \in DOMAIN @ |-> IF @[i].ShaftNr = ShaftNr
                            THEN [@[i] EXCEPT !.PW_sum = @ + pw] ELSE @[i]]]
\* shaft.PW_sum = 0
ResetShaftPower(w, ShaftNr) ==
    [w EXCEPT !.shaft_list =
        [i \in DOMAIN @ |-> IF @[i].ShaftNr = ShaftNr
                            THEN [@[i] EXCEPT !.PW_sum = 0] ELSE @[i]]]
PW_sum(w, ShaftNr) ==
    (CHOOSE sh \in {w.shaft_list[i] : i \in DOMAIN w.shaft_list} :
        sh.ShaftNr = ShaftNr).PW_sum

\* Python round() of the non-negative quotient a / b: to the nearest
\* integer, a tie going to the even neighbour
Round(a, b) ==
    LET q == a \div b
        m == a % b
    IN  IF 2 * m < b THEN q
        ELSE IF 2 * m > b THEN q + 1
        ELSE IF q % 2 = 0 THEN q ELSE q + 1

\* TControl.Get_OD_inputpoints without the point at the start value
TControl_Get_OD_inputpoints_NoStartPoint(c) ==
    LET pointcount == Round(Abs(c.OD_endvalue - c.OD_startvalue),
                            Abs(c.OD_pointstepvalue))
    IN  [i \in 1..pointcount |-> i - 1]

\* TControl.Get_OD_inputpoints:
\* pointcount = round(abs((end - start) / step) + 1); np.arange(0, pointcount, 1)
TControl_Get_OD_inputpoints(c) ==
    LET pointcount == Round(Abs(c.OD_endvalue - c.OD_startvalue)
                               + Abs(c.OD_pointstepvalue),
                            Abs(c.OD_pointstepvalue))
    IN  [i \in 1..pointcount |-> i - 1]

\* TAMcontrol.Get_OD_inputpoints: the 'Point' column of the input file
TAMcontrol_Get_OD_inputpoints(c) == c.am_input_index

\* OD_controlledparname != None
ClosedLoop(c) == c.kind = "TControl" /\ c.OD_controlledparname # "None"

\* self.OD_startvalue + self.OD_inputpoints[PointTime] * self.OD_pointstepvalue
SweepValue(c, PointTime) ==
    c.OD_startvalue
       + TControl_Get_OD_inputpoints(c)[PointTime + 1] * c.OD_pointstepvalue

\* TControl.Run: the DP input value at DP; at OD the sweep value (open loop)
\* or the DP input value times the control state (closed loop)
TControl_Run(w, mode, PointTime) ==
    IF mode = "DP"
    THEN [w EXCEPT !.Inputvalue = control.DP_inputvalue]
    ELSE IF ~ClosedLoop(control)
    THEN [w EXCEPT !.Inputvalue = SweepValue(control, PointTime)]
    ELSE [w EXCEPT !.Inputvalue =
             (control.DP_inputvalue * w.states[w.reg["istate_control"]]) \div One]

\* the value fsys.output_dict holds under OD_controlledparname: 'N1%', kept
\* in hundredths of a percent, or 'FN'
ControlledPar(w) ==
    IF control.OD_controlledparname = "FN" THEN w.out.FN ELSE w.out.N1

\* TControl.PostRun that takes the set point itself for the residual
TControl_PostRun_Undivided(w, mode, PointTime) ==
    IF ~ClosedLoop(control) THEN w
    ELSE IF mode = "DP"
    THEN LET w1 == SetStateIndex(AppendState(w), "istate_control")
             w2 == SetErrorIndex(AppendError(w1), "ierror_control")
         IN  [w2 EXCEPT !.reg["DP_controlparvalue"] = ControlledPar(w)]
    ELSE WriteError(w, "ierror_control", SweepValue(control, PointTime) * 100)

\* TControl.PostRun of a closed-loop control: at DP one state and one
\* residual are appended and the DP value of the controlled parameter is
\* kept; at OD the residual is (demand - value) / DP value.  An open-loop
\* control does nothing.
TControl_PostRun(w, mode, PointTime) ==
    IF ~ClosedLoop(control) THEN w
    ELSE IF mode = "DP"
    THEN LET w1 == SetStateIndex(AppendState(w), "istate_control")
             w2 == SetErrorIndex(AppendError(w1), "ierror_control")
         IN  [w2 EXCEPT !.reg["DP_controlparvalue"] = ControlledPar(w)]
    ELSE LET controlpar_demand == SweepValue(control, PointTime) * 100
             controlparvalue == ControlledPar(w)
         IN  WriteError(w, "ierror_control",
                ((controlpar_demand - controlparvalue) * One)
                    \div w.reg["DP_controlparvalue"])

\* TAMcontrol.Run: at DP the input file is read, and with 'N1%' as power
\* setting a state (the Wf scale factor) and a residual are appended; at OD
\* the power setting of row PointTime is set on the combustor (with 'N1%'
\* the measured Wf times the Wf scale factor) and the map modifiers are read
\* from the states
TAMcontrol_Run(w, mode, PointTime) ==
    IF mode = "DP"
    THEN LET w1 == [w EXCEPT !.reg["am_input"] = 1] IN
         IF control.psetpar = "N1%"
         THEN SetErrorIndex(AppendError(
                 SetStateIndex(AppendState(w1), "istate_Wf")), "ierror_N1")
         ELSE w1
    ELSE IF control.psetpar = "N1%"
    THEN [w EXCEPT !.Inputvalue =
             ((control.Wf_meas + PointTime) * w.states[w.reg["istate_Wf"]]) \div One]
    ELSE [w EXCEPT !.Inputvalue = control.Wf_meas + PointTime]

\* 'N1%' of the rows of the input file, in hundredths of a percent
N1_meas == 100 * 100

\* TAMcontrol.PostRun: at DP one state and one residual per map modifier are
\* appended and the first state index kept; at OD the measured-parameter
\* residuals are written at len(states) - len(mapmod_bounds) + i, and a map
\* modifier outside its bounds adds the penalty to every residual
RECURSIVE AppendMapMods(_, _)
AppendMapMods(w, n) ==
    IF n = 0 THEN w ELSE AppendMapMods(AppendError(AppendState(w)), n - 1)

Penalty(state_value, lower_bound, upper_bound) ==
    IF state_value < lower_bound
    THEN (((lower_bound - state_value) * (lower_bound - state_value)) \div One) * 1000
    ELSE IF state_value > upper_bound
    THEN (((state_value - upper_bound) * (state_value - upper_bound)) \div One) * 1000
    ELSE 0

RECURSIVE AMPenalties(_, _, _)
AMPenalties(w, mapmod_start, i) ==
    IF i >= control.nmapmod THEN w
    ELSE LET p == Penalty(w.states[mapmod_start + i],
                          control.lower_bound, control.upper_bound)
         IN  AMPenalties([w EXCEPT !.errors = [j \in DOMAIN @ |-> @[j] + p]],
                         mapmod_start, i + 1)

RECURSIVE AMErrors(_, _, _, _)
AMErrors(w, mapmod_start, i, r) ==
    IF i >= control.nmeaspar \/ mapmod_start + i \notin DOMAIN w.errors THEN w
    ELSE AMErrors([w EXCEPT !.errors[mapmod_start + i] = r], mapmod_start, i + 1, r)

TAMcontrol_PostRun(w, mode, r) ==
    IF mode = "DP"
    THEN LET w1 == AppendMapMods([w EXCEPT !.reg["first_map_mod_stateindex"] = Len(w.states) + 1],
                                 control.nmapmod)
         IN  IF control.psetpar = "N1%"
             THEN [w1 EXCEPT !.reg["N1_DP"] = w.out.N1] ELSE w1
    ELSE LET mapmod_start == Len(w.states) - control.nmapmod + 1
             w1 == AMPenalties(AMErrors(w, mapmod_start, 0, r), mapmod_start, 0)
         IN  IF control.psetpar = "N1%"
             THEN WriteError(w1, "ierror_N1",
                     ((N1_meas - w.out.N1) * One) \div w.reg["N1_DP"])
             ELSE w1

\* TInlet.Run that also registers a residual for its flow state
TInlet_Run_WithResidual(w, mode) ==
    LET w1 == IF mode = "DP"
              THEN AppendError(SetStateIndex(AppendState(w), "istate_wc"))
              ELSE w
    IN  [w1 EXCEPT !.RD = @ + V]

\* TInlet.Run: one state (corrected inlet flow) at DP, no residual; the ram
\* drag is added to the system-level RD
TInlet_Run(w, mode) ==
    LET w1 == IF mode = "DP" THEN SetStateIndex(AppendState(w), "istate_wc")
              ELSE w
    IN  [w1 EXCEPT !.RD = @ + V]

\* TCompressor.Run: the power absorbed is taken from the shaft; shaft-speed
\* state, beta state and mass-flow residual
TCompressor_Run(w, mode, r) ==
    LET w1 == AddShaftPower(w, 1, -PWcdes) IN
    IF mode = "DP"
    THEN SetErrorIndex(AppendError(
            SetStateIndex(AppendState(
               SetStateIndex(AppendState(w1), "istate_n")), "istate_beta_c")),
            "ierror_wc_c")
    ELSE WriteError(w1, "ierror_wc_c", r)

\* TTurboComponent.AddOutputToDict: 'N1%' = N / Ndes * 100, N being Ndes at
\* DP and the shaft-speed state times Ndes at OD
TTurboComponent_AddOutputToDict(w, mode) ==
    [w EXCEPT !.out.N1 = IF mode = "DP" THEN 100 * 100
                         ELSE (100 * 100 * w.states[w.reg["istate_n"]]) \div One]

\* TCombustor.Run: Wf is Wfdes at DP and the Control's Inputvalue (clamped at
\* zero) at OD; Wf is added to the system-level WF
TCombustor_Run(w, mode) ==
    LET Wf == IF mode = "DP" THEN Wfdes
              ELSE IF w.Inputvalue < 0 THEN 0 ELSE w.Inputvalue
    IN  [w EXCEPT !.WF = @ + Wf]

\* TTurbine.Run that registers the shaft-power residual whatever its type
TTurbine_Run_AlwaysShaftResidual(w, mode, r) ==
    IF mode = "DP"
    THEN SetErrorIndex(AppendError(
            SetErrorIndex(AppendError(
               SetStateIndex(AppendState(w), "istate_beta_t")), "ierror_wc_t")),
            "ierror_shaftpw")
    ELSE WriteError(WriteError(w, "ierror_wc_t", r), "ierror_shaftpw", r)

\* TTurbine.Run.  DP: a 'GG' turbine delivers what the shaft has absorbed,
\* PW = -PW_sum, and leaves PW_sum at 0; another turbine adds its power to
\* the shaft; PWdes = PW; one beta state, one mass-flow residual and, for
\* 'GG' only, one shaft-power residual are registered.  OD: the mass-flow
\* residual is written, the power is added to the shaft and a 'GG' turbine
\* writes PW_sum / PWdes into the shaft-power residual; the power of this
\* walk is the one that leaves the fraction r of PWdes unbalanced.
TTurbine_Run(w, mode, r) ==
    IF mode = "DP"
    THEN LET PW == IF TurbineType = "GG" THEN -PW_sum(w, 1) ELSE PWcdes
             w1 == IF TurbineType = "GG" THEN ResetShaftPower(w, 1)
                   ELSE AddShaftPower(w, 1, PW)
             w2 == [w1 EXCEPT !.reg["PWdes"] = PW]
             w3 == SetErrorIndex(AppendError(
                      SetStateIndex(AppendState(w2), "istate_beta_t")),
                      "ierror_wc_t")
         IN  IF TurbineType = "GG"
             THEN SetErrorIndex(AppendError(w3), "ierror_shaftpw")
             ELSE w3
    ELSE LET PW == PWcdes + (r * w.reg["PWdes"]) \div One
             w1 == WriteError(w, "ierror_wc_t", r)
             w2 == AddShaftPower(w1, 1, PW)
         IN  IF TurbineType = "GG"
             THEN WriteError(w2, "ierror_shaftpw",
                             (PW_sum(w2, 1) * One) \div w.reg["PWdes"])
             ELSE w2

\* TExhaustNozzle.Run that registers no exit-flow residual
TExhaustNozzle_Run_NoResidual(w, mode, r) ==
    [w EXCEPT !.FG = @ + FGnozzle]

\* TExhaustNozzle.Run: one exit-flow residual; the gross thrust is added to
\* the system-level FG
TExhaustNozzle_Run(w, mode, r) ==
    LET w1 == IF mode = "DP" THEN SetErrorIndex(AppendError(w), "ierror_w")
              ELSE WriteError(w, "ierror_w", r)
    IN  [w1 EXCEPT !.FG = @ + FGnozzle]

\* comp.Run(Mode, PointTime)
Run(comp, w, mode, PointTime, r) ==
    CASE comp = "TControl"      -> TControl_Run(w, mode, PointTime)
      [] comp = "TAMcontrol"    -> TAMcontrol_Run(w, mode, PointTime)
      [] comp = "Inlet"         -> TInlet_Run(w, mode)
      [] comp = "Compressor"    -> TCompressor_Run(w, mode, r)
      [] comp = "Combustor"     -> TCombustor_Run(w, mode)
      [] comp = "Turbine"       -> TTurbine_Run(w, mode, r)
      [] comp = "ExhaustNozzle" -> TExhaustNozzle_Run(w, mode, r)
      [] OTHER                  -> w

\* comp.AddOutputToDict(Mode): of the columns the components write, the
\* model keeps the one a closed-loop control reads back, the shaft speed
\* the turbo components write
AddOutputToDict(comp, w, mode) ==
    IF comp \in {"Compressor", "Turbine"} /\ (ClosedLoop(control) \/ control.psetpar = "N1%")
    THEN TTurboComponent_AddOutputToDict(w, mode) ELSE w

\* comp.PostRun(Mode, PointTime): only the controls act
PostRun(comp, w, mode, PointTime, r) ==
    CASE comp = "TAMcontrol" -> TAMcontrol_PostRun(w, mode, r)
      [] comp = "TControl"   -> TControl_PostRun(w, mode, PointTime)
      [] OTHER               -> w

\* index attributes an off-design Run or PostRun of comp reads; an attribute
\* the DP pass never created makes the access raise
Needs(comp) ==
    CASE comp = "TAMcontrol"    -> {"am_input", "first_map_mod_stateindex"}
                                   \cup (IF control.psetpar = "N1%"
                                         THEN {"istate_Wf", "ierror_N1"} ELSE {})
      [] comp = "TControl"      -> IF ClosedLoop(control)
                                   THEN {"istate_control"} ELSE {}
      [] comp = "Inlet"         -> {"istate_wc"}
      [] comp = "Compressor"    -> {"istate_n", "istate_beta_c", "ierror_wc_c"}
      [] comp = "Turbine"       -> IF TurbineType = "GG"
                                   THEN {"istate_beta_t", "ierror_wc_t",
                                         "ierror_shaftpw"}
                                   ELSE {"istate_beta_t", "ierror_wc_t"}
      [] comp = "ExhaustNozzle" -> {"ierror_w"}
      [] OTHER                  -> {}

\* does comp.Run raise?  At DP the component dpRaiseAt of this model does
\* not complete (a map file that cannot be read); at OD the component failAt of this walk, a
\* component whose index attributes are missing, and an open-loop control
\* asked for a point outside its sweep
RunRaises(i, w, mode, PointTime, failAt) ==
    LET comp == system_model[i] IN
    IF mode = "DP" THEN i = dpRaiseAt
    ELSE \/ i = failAt
         \/ \E n \in Needs(comp) : w.reg[n] = 0
         \/ /\ comp = "TControl"
            /\ ~ClosedLoop(control)
            /\ PointTime + 1 \notin DOMAIN TControl_Get_OD_inputpoints(control)

\* does comp.PostRun raise?  The adaptive-model control does when a
\* measured-parameter residual position lies beyond the end of fsys.errors;
\* the closed-loop control does when the point lies outside its sweep, when
\* fsys.OutputTable is still None (len(fsys.OutputTable)) and when the DP
\* value it divides by is zero
PostRunRaises(comp, w, mode, PointTime) ==
    /\ mode = "OD"
    /\ \/ /\ comp = "TAMcontrol"
          /\ \E i \in 0..(control.nmeaspar - 1) :
                Len(w.states) - control.nmapmod + 1 + i \notin DOMAIN w.errors
       \/ /\ comp = "TControl"
          /\ ClosedLoop(control)
          /\ \/ PointTime + 1 \notin DOMAIN TControl_Get_OD_inputpoints(control)
             \/ w.table = <<>>
             \/ w.reg["DP_controlparvalue"] = 0

\* --------------------------------------------------------- system.py ----
\* reinit_states_and_errors: both loops assign to their loop variable only,
\* so fsys.states and fsys.errors are left exactly as they were
reinit_states_and_errors(w) == w

\* reinit_system with the totals left as the previous walk left them
reinit_system_KeepTotals(w) == w

\* reinit_system that leaves the fuel total as the previous walk left it
reinit_system_KeepFuel(w) ==
    [w EXCEPT !.shaft_list = [i \in DOMAIN @ |-> [@[i] EXCEPT !.PW_sum = 0]],
              !.FG = 0, !.RD = 0]

\* reinit_system: PW_sum of every shaft and the system totals are zeroed
reinit_system(w) ==
    [w EXCEPT !.shaft_list = [i \in DOMAIN @ |-> [@[i] EXCEPT !.PW_sum = 0]],
              !.FG = 0, !.RD = 0, !.WF = 0]

\* AddSystemOutputToDict: FN = FG - RD; FG, FN, RD and WF are written to the
\* output dictionary (the PW<ShaftNr> columns are not kept in the model)
AddSystemOutputToDict(w) ==
    [w EXCEPT !.out.FG = w.FG, !.out.FN = w.FG - w.RD, !.out.RD = w.RD,
              !.out.WF = w.WF]

\* first loop of Do_Run: comp.Run for every component in list order, the
\* walk ending at the first component whose Run raises
RECURSIVE RunComps(_, _, _, _, _, _)
RunComps(i, w, mode, PointTime, r, failAt) ==
    IF i > Len(system_model) THEN w
    ELSE IF RunRaises(i, w, mode, PointTime, failAt)
         THEN [w EXCEPT !.raised = TRUE]
         ELSE RunComps(i + 1,
                       AddOutputToDict(system_model[i],
                          Run(system_model[i], w, mode, PointTime, r), mode),
                       mode, PointTime, r, failAt)

\* what a PostRun that raises has done before it raises: the adaptive-model
\* control has written the measured-parameter residuals whose positions
\* lie within fsys.errors, the closed-loop control nothing
PostRunUntilRaise(comp, w, mode, r) ==
    IF comp = "TAMcontrol" /\ mode = "OD"
    THEN AMErrors(w, Len(w.states) - control.nmapmod + 1, 0, r)
    ELSE w

\* second loop of Do_Run: comp.PostRun for every component
RECURSIVE PostRuns(_, _, _, _, _)
PostRuns(i, w, mode, PointTime, r) ==
    IF i > Len(system_model) THEN w
    ELSE IF PostRunRaises(system_model[i], w, mode, PointTime)
         THEN [PostRunUntilRaise(system_model[i], w, mode, r) EXCEPT !.raised = TRUE]
         ELSE PostRuns(i + 1, PostRun(system_model[i], w, mode, PointTime, r),
                       mode, PointTime, r)

\* Do_Run with the PostRun loop ahead of the Run loop
Do_Run_PostRunFirst(PointTime, states_par, w, mode, r, failAt) ==
    LET w0 == reinit_system([w EXCEPT !.states = states_par])
        w1 == [w0 EXCEPT !.out.PointTime = PointTime, !.out.Mode = mode]
        w2 == PostRuns(1, w1, mode, PointTime, r)
    IN  IF w2.raised THEN w2
        ELSE AddSystemOutputToDict(RunComps(1, w2, mode, PointTime, r, failAt))

\* Do_Run(PointTime, states_par): r is what the residuals of this walk
\* evaluate to, failAt the component that raises in it (0: none)
Do_Run(PointTime, states_par, w, mode, r, failAt) ==
    LET w0 == reinit_system([w EXCEPT !.states = states_par])
        w1 == [w0 EXCEPT !.out.PointTime = PointTime, !.out.Mode = mode]
        w2 == RunComps(1, w1, mode, PointTime, r, failAt)
    IN  IF w2.raised THEN w2
        ELSE PostRuns(1, AddSystemOutputToDict(w2), mode, PointTime, r)

\* Do_Output without the 'Not converged' annotation
Comment_NoConvergenceFlag(ErrorCode) ==
    IF ErrorCode = 2 THEN "Exception error" ELSE ""

\* the Comment column of Do_Output
Comment(ErrorCode) ==
    IF ErrorCode = 1 THEN "Not converged"
    ELSE IF ErrorCode = 2 THEN "Exception error"
    ELSE ""

\* Do_Output(PointTime, ErrorCode): the row appended is output_dict, whose
\* 'Point/Time' is the one the last Do_Run stored
Do_Output(w, ErrorCode) ==
    LET w1 == AddSystemOutputToDict(w)
        w2 == [w1 EXCEPT !.out.Comment = Comment(ErrorCode)]
    IN  [w2 EXCEPT !.table = Append(@, w2.out)]

\* the module-level state seen as one record, and back
World ==
    [states |-> states, errors |-> errors, WF |-> WF, FG |-> FG, RD |-> RD,
     shaft_list |-> shaft_list, reg |-> reg, out |-> output_dict, table |-> OutputTable, Inputvalue |-> 0,
     raised |-> FALSE]

Store(w) ==
    /\ states' = w.states
    /\ errors' = w.errors
    /\ WF' = w.WF
    /\ FG' = w.FG
    /\ RD' = w.RD
    /\ shaft_list' = w.shaft_list
    /\ reg' = w.reg
    /\ output_dict' = w.out
    /\ OutputTable' = w.table

\* ---------------------------------------------- scipy.optimize.root ----
\* root(residuals, states, method='krylov', tol=ErrorTolerance,
\*      options={'maxiter': maxiter}).  For 'krylov' root() hands tol to the
\* solver as xtol, the relative step tolerance, and leaves the residual
\* tolerances infinite: an iteration ends the solve when the residual norm
\* is exactly zero or when norm(dx) <= xtol * norm(x).  A configuration of
\* the solver is its iterate x, whether its last step was that small, and
\* the module state w its last residual call left behind.

\* a root() call that would start every point from all-1 states
InitialGuess_AllOnes(st) == Uniform(Len(st), One)

\* x0 argument of the root() call: fsys.states as the module holds it
InitialGuess(st) == st

SmallStep(dx_norm, x_norm) == dx_norm * One <= ErrorTolerance * x_norm

\* TerminationCondition.check
Converged(c) == MaxNorm(c.w.errors) = 0 \/ c.small

\* residual calls: every residual value and every raising component
Evaluations(PointTime, x, w) ==
    { Do_Run(PointTime, x, w, "OD", r, f) : r \in ErrVals, f \in {0} \cup ODRaisers }

\* one Newton step from configuration c towards the uniform iterate v: a
\* zero step makes the solver raise ValueError, any other step ends with a
\* residual call at the new iterate
StepsFrom(PointTime, c) ==
    UNION { LET x  == Uniform(Len(c.x), v)
                dx == MaxNorm([i \in DOMAIN x |-> x[i] - c.x[i]])
            IN  IF dx = 0
                THEN { [x |-> c.x, small |-> FALSE, w |-> [c.w EXCEPT !.raised = TRUE]] }
                ELSE { [x |-> x, small |-> SmallStep(dx, MaxNorm(x)), w |-> e]
                       : e \in Evaluations(PointTime, x, c.w) }
          : v \in StateVals }

Outcome(status, c) == [status |-> status, x |-> c.x, w |-> c.w]

\* the Newton loop 'for n in range(maxiter)': C holds the configurations
\* that can be current at the top of iteration n, seen the sets of the
\* iterations before it, acc the outcomes reached so far (status 1:
\* converged, 2: iteration limit, 0: an exception left root()).  When C
\* equals the set of an earlier iteration the sets repeat with that period
\* up to the iteration limit, and no new outcome arises on the way.
RECURSIVE NonlinSolve(_, _, _, _, _)
NonlinSolve(n, PointTime, C, acc, seen) ==
    IF n = maxiter
    THEN acc \cup { Outcome(2, c) : c \in C }
    ELSE IF \E j \in DOMAIN seen : seen[j] = C
    THEN LET j == CHOOSE i \in DOMAIN seen : seen[i] = C
             last == seen[j + ((maxiter - n) % (n + 1 - j))]
         IN  acc \cup { Outcome(2, c) : c \in last }
    ELSE LET done == { c \in C : Converged(c) }
             stepped == UNION { StepsFrom(PointTime, c) : c \in C \ done }
             next == { c \in stepped : ~c.w.raised }
             acc2 == acc \cup { Outcome(1, c) : c \in done }
                         \cup { Outcome(0, c) : c \in stepped \ next }
         IN  NonlinSolve(n + 1, PointTime, next, acc2, Append(seen, C))

\* every way the root() call of one OD point can end
RootOutcomes(PointTime, guess, w) ==
    LET first == { [x |-> guess, small |-> FALSE, w |-> e]
                   : e \in Evaluations(PointTime, guess, w) }
        ok == { c \in first : ~c.w.raised }
    IN  NonlinSolve(0, PointTime, ok, { Outcome(0, c) : c \in first \ ok }, <<>>)

\* ------------------------------------------------------- the drivers ----
\* numpy indexing a[i] of a one-dimensional array with i >= 0
InRange(a, i) == i + 1 \in DOMAIN a
Index(a, i) == a[i + 1]

\* controls of the models enumerated: the open-loop fuel sweep from Wfdes
\* downwards in steps of 0.01 kg/s, and adaptive-model input files whose
\* 'Point' column numbers the rows from 1
LowerBound == (9 * One) \div 10
UpperBound == (11 * One) \div 10

TControls ==
    { [kind |-> "TControl", DP_inputvalue |-> Wfdes, OD_startvalue |-> Wfdes,
       OD_endvalue |-> Wfdes - (n - 1), OD_pointstepvalue |-> -1,
       OD_controlledparname |-> "None",
       am_input_index |-> <<>>, Wf_meas |-> 0, nmapmod |-> 0, nmeaspar |-> 0, psetpar |-> "Wf",
       lower_bound |-> 0, upper_bound |-> 0] : n \in 1..MaxPoints }

TAMcontrols ==
    { [kind |-> "TAMcontrol", DP_inputvalue |-> 0, OD_startvalue |-> 0,
       OD_endvalue |-> 0, OD_pointstepvalue |-> 0,
       OD_controlledparname |-> "None",
       am_input_index |-> [i \in 1..n |-> first + i - 1], Wf_meas |-> Wfdes,
       nmapmod |-> 1, nmeaspar |-> 1, psetpar |-> "Wf",
       lower_bound |-> LowerBound, upper_bound |-> UpperBound]
      : n \in 1..MaxPoints, first \in {1} }

Get_OD_inputpoints(c) ==
    IF c.kind = "TControl" THEN TControl_Get_OD_inputpoints(c)
    ELSE TAMcontrol_Get_OD_inputpoints(c)

\* fsys.output_dict before the first walk
NoOutput == [PointTime |-> -1, Mode |-> "None", N1 |-> 0, FG |-> 0, FN |-> 0,
             RD |-> 0, WF |-> 0, Comment |-> "None"]
NoResult == [kind |-> "none", value |-> 0, failed |-> 0]
NoSolution == [status |-> 0, x |-> <<>>]

Init ==
    /\ control \in TControls \cup TAMcontrols
    /\ points_output_interval \in {1, 2}
    /\ MapFileName \in MapFiles
    /\ dpRaiseAt \in IF TTurboMap_ReadMap(MapFileName) = "read" THEN {0}
                     ELSE DPRaisers
    /\ TurbineType = "GG"
    /\ Mode = "None"
    /\ states = <<>>
    /\ errors = <<>>
    /\ WF = 0
    /\ FG = 0
    /\ RD = 0
    /\ shaft_list = NewShafts
    /\ reg = [n \in RegNames |-> 0]
    /\ output_dict = NoOutput
    /\ OutputTable = <<>>
    /\ inputpoints = <<>>
    /\ pc = "idle"
    /\ k = 0
    /\ successcount = 0
    /\ failedcount = 0
    /\ x0 = <<>>
    /\ solution = NoSolution
    /\ result = NoResult
    /\ nruns = 0
    /\ ExtIdle

\* fsys.Mode = 'DP'; fsys.Run_DP_simulation()
Run_DP_simulation ==
    /\ pc = "idle"
    /\ nruns < MaxRuns
    /\ TTurboMap_ReadMap(MapFileName) # "hang"
    /\ LET w0 == reinit_states_and_errors(World)
           w1 == Do_Run(0, w0.states, w0, "DP", 0, 0)
       IN  IF w1.raised
           THEN Store(Do_Output([w1 EXCEPT !.raised = FALSE], ExceptionError))
           ELSE Store(Do_Output(w1, NoError))
    /\ Mode' = "DP"
    /\ nruns' = nruns + 1
    /\ UNCHANGED extvars
    /\ UNCHANGED <<control, points_output_interval, dpRaiseAt, TurbineType, MapFileName, inputpoints, pc,
                   k, successcount, failedcount, x0, solution, result>>

\* fsys.Mode = 'DP'; fsys.Run_DP_simulation() in a model whose map file has
\* no header line: the walk reaches the turbine, whose ReadMap never
\* returns, and neither does Run_DP_simulation
Run_DP_simulation_Hangs ==
    /\ pc = "idle"
    /\ nruns < MaxRuns
    /\ TTurboMap_ReadMap(MapFileName) = "hang"
    /\ LET w0 == reinit_states_and_errors(World)
           w1 == Do_Run(0, w0.states, w0, "DP", 0, 0)
       IN  Store([w1 EXCEPT !.raised = FALSE])
    /\ Mode' = "DP"
    /\ pc' = "hang"
    /\ nruns' = nruns + 1
    /\ UNCHANGED extvars
    /\ UNCHANGED <<control, points_output_interval, dpRaiseAt, TurbineType, MapFileName,
                   inputpoints, k, successcount, failedcount, x0, solution, result>>

\* fsys.inputpoints = Control.Get_OD_inputpoints(); the adaptive-model
\* control has its input file only once its design-point Run has been done
Set_inputpoints ==
    /\ pc = "idle"
    /\ control.kind = "TAMcontrol" => reg["am_input"] = 1
    /\ inputpoints' = Get_OD_inputpoints(control)
    /\ UNCHANGED extvars
    /\ UNCHANGED <<control, points_output_interval, dpRaiseAt, TurbineType, MapFileName, Mode, states, errors, WF,
                   FG, RD, shaft_list, reg, output_dict, OutputTable, pc, k, successcount,
                   failedcount, x0, solution, result, nruns>>

\* the locals of Run_OD_simulation cease to exist when it is left
Locals_End ==
    /\ k' = 0
    /\ successcount' = 0
    /\ failedcount' = 0
    /\ x0' = <<>>
    /\ solution' = NoSolution

\* fsys.Mode = 'OD'; Run_OD_simulation() up to the for statement
Run_OD_simulation ==
    /\ pc = "idle"
    /\ nruns < MaxRuns
    /\ Mode' = "OD"
    /\ Store(reinit_states_and_errors(World))
    /\ successcount' = 0
    /\ failedcount' = 0
    /\ k' = 0
    /\ pc' = "loop"
    /\ result' = NoResult
    /\ nruns' = nruns + 1
    /\ UNCHANGED extvars
    /\ UNCHANGED <<control, points_output_interval, dpRaiseAt, TurbineType, MapFileName, inputpoints, x0, solution>>

\* one pass of the for loop whose root() call returns
OD_Point ==
    /\ pc = "loop"
    /\ k < Len(inputpoints)
    /\ LET ipoint == inputpoints[k + 1] IN
       /\ InRange(inputpoints, ipoint)
       /\ \E o \in RootOutcomes(Index(inputpoints, ipoint), InitialGuess(states), World) :
             /\ o.status # 0
             /\ solution' = [status |-> o.status, x |-> o.x]
             /\ Store(IF ipoint % points_output_interval = 0
                      THEN Do_Output(o.w, IF o.status = 1 THEN NoError
                                          ELSE ConvergenceError)
                      ELSE o.w)
             /\ successcount' = IF o.status = 1 THEN successcount + 1 ELSE successcount
             /\ failedcount' = IF o.status = 1 THEN failedcount ELSE failedcount + 1
    /\ x0' = InitialGuess(states)
    /\ k' = k + 1
    /\ UNCHANGED extvars
    /\ UNCHANGED <<control, points_output_interval, dpRaiseAt, TurbineType, MapFileName, Mode, inputpoints, pc,
                   result, nruns>>

\* one pass of the for loop in which an exception leaves root(): the except
\* clause records the row, counts the failure, and the function returns
OD_Except ==
    /\ pc = "loop"
    /\ k < Len(inputpoints)
    /\ LET ipoint == inputpoints[k + 1] IN
       /\ InRange(inputpoints, ipoint)
       /\ \E o \in RootOutcomes(Index(inputpoints, ipoint), InitialGuess(states), World) :
             /\ o.status = 0
             /\ Store(Do_Output([o.w EXCEPT !.raised = FALSE], ExceptionError))
    /\ pc' = "idle"
    /\ result' = [kind |-> "returned", value |-> successcount,
                  failed |-> failedcount + 1]
    /\ Locals_End
    /\ UNCHANGED extvars
    /\ UNCHANGED <<control, points_output_interval, dpRaiseAt, TurbineType, MapFileName, Mode, inputpoints, nruns>>

\* one pass of the for loop in which inputpoints[ipoint] is out of range:
\* the first residual call raises IndexError, the except clause evaluates
\* inputpoints[ipoint] again and the IndexError leaves Run_OD_simulation
OD_IndexError ==
    /\ pc = "loop"
    /\ k < Len(inputpoints)
    /\ ~InRange(inputpoints, inputpoints[k + 1])
    /\ pc' = "idle"
    /\ result' = [kind |-> "raised", value |-> 0, failed |-> 0]
    /\ Locals_End
    /\ UNCHANGED extvars
    /\ UNCHANGED <<control, points_output_interval, dpRaiseAt, TurbineType, MapFileName, Mode, states, errors, WF,
                   FG, RD, shaft_list, reg, output_dict, OutputTable, inputpoints, nruns>>

\* the for loop is exhausted: summary line and return successcount
OD_Return ==
    /\ pc = "loop"
    /\ k = Len(inputpoints)
    /\ pc' = "idle"
    /\ result' = [kind |-> "returned", value |-> successcount,
                  failed |-> failedcount]
    /\ Locals_End
    /\ UNCHANGED extvars
    /\ UNCHANGED <<control, points_output_interval, dpRaiseAt, TurbineType, MapFileName, Mode, states, errors, WF,
                   FG, RD, shaft_list, reg, output_dict, OutputTable, inputpoints, nruns>>

Next ==
    \/ Run_DP_simulation
    \/ Run_DP_simulation_Hangs
    \/ Set_inputpoints
    \/ Run_OD_simulation
    \/ OD_Point
    \/ OD_Except
    \/ OD_IndexError
    \/ OD_Return

Spec == Init /\ [][Next]_vars

\* ------------------------------------------ construction, single walks ----
\* A second specification: the model is constructed (the constructor of the
\* Control may raise), and after that the caller runs the design point, asks
\* for the input points and makes single residual calls, each one Do_Run walk
\* at an iterate of the solver.  The Control may also be closed loop and the
\* turbine of a type other than 'GG'.

\* longest prefix of the input points at which single walks are made
MaxWalkPoints == 2

\* the control before its constructor has run
NoControl ==
    [kind |-> "None", DP_inputvalue |-> 0, OD_startvalue |-> 0,
     OD_endvalue |-> 0, OD_pointstepvalue |-> 0, OD_controlledparname |-> "None",
     am_input_index |-> <<>>, Wf_meas |-> 0, nmapmod |-> 0, nmeaspar |-> 0, psetpar |-> "Wf",
     lower_bound |-> 0, upper_bound |-> 0]

\* TControl.__init__ that accepts every start, end and step value
TControl_init_Raises_Never(OD_startvalue, OD_endvalue, OD_pointstepvalue) ==
    FALSE

\* TControl.__init__: raise Exception("Invalid control variable begin, end
\* and step values")
TControl_init_Raises(OD_startvalue, OD_endvalue, OD_pointstepvalue) ==
    \/ Abs(OD_pointstepvalue) = 0
    \/ (OD_endvalue - OD_startvalue) * OD_pointstepvalue < 0

\* TControl.__init__: the attributes of the control constructed
TControl_init(DP_inputvalue, OD_startvalue, OD_endvalue, OD_pointstepvalue, OD_controlledparname) ==
    [NoControl EXCEPT !.kind = "TControl",
                      !.DP_inputvalue = DP_inputvalue,
                      !.OD_startvalue = OD_startvalue,
                      !.OD_endvalue = OD_endvalue,
                      !.OD_pointstepvalue = OD_pointstepvalue,
                      !.OD_controlledparname = OD_controlledparname]

\* constructor arguments enumerated, <<DP_inputvalue, OD_startvalue,
\* OD_endvalue, OD_pointstepvalue, OD_controlledparname>>: fuel flow in
\* 0.01 kg/s, shaft speed in percent, a temperature in K
ControlArgs ==
    { <<Wfdes, Wfdes, 8, -1, "None">>,
      <<Wfdes, Wfdes, Wfdes - 1, -1, "None">>,
      <<Wfdes, Wfdes, Wfdes, -1, "None">>,
      <<Wfdes, Wfdes, Wfdes, 1, "None">>,
      <<Wfdes, Wfdes, 35, -2, "None">>,
      <<Wfdes, Wfdes, 33, -2, "None">>,
      <<Wfdes, Wfdes, 8, 0, "None">>,
      <<Wfdes, Wfdes, 8, 1, "None">>,
      <<Wfdes, 8, Wfdes, -1, "None">>,
      <<Wfdes, 1600, 1100, -50, "None">>,
      <<111, 100, 60, -5, "N1%">>,
      <<111, 100, 100, -5, "N1%">>,
      <<111, 100, 60, 5, "N1%">>,
      <<111, 100, 60, 0, "N1%">> }

InitWalk ==
    /\ control = NoControl
    /\ points_output_interval = 1
    /\ MapFileName \in MapFiles
    /\ dpRaiseAt \in IF TTurboMap_ReadMap(MapFileName) = "read" THEN {0}
                     ELSE DPRaisers
    /\ TurbineType \in {"GG", "PT"}
    /\ Mode = "None"
    /\ states = <<>>
    /\ errors = <<>>
    /\ WF = 0
    /\ FG = 0
    /\ RD = 0
    /\ shaft_list = NewShafts
    /\ reg = [n \in RegNames |-> 0]
    /\ output_dict = NoOutput
    /\ OutputTable = <<>>
    /\ inputpoints = <<>>
    /\ pc = "build"
    /\ k = 0
    /\ successcount = 0
    /\ failedcount = 0
    /\ x0 = <<>>
    /\ solution = NoSolution
    /\ result = NoResult
    /\ nruns = 0
    /\ ExtIdle

\* FuelControl = TControl(name, '', DP_inputvalue, OD_startvalue, OD_endvalue,
\* OD_pointstepvalue, OD_controlledparname): the exception of the
\* constructor ends the script
New_TControl ==
    /\ pc = "build"
    /\ \E a \in ControlArgs :
          IF TControl_init_Raises(a[2], a[3], a[4])
          THEN /\ pc' = "failed"
               /\ control' = [NoControl EXCEPT !.OD_startvalue = a[2],
                                               !.OD_endvalue = a[3],
                                               !.OD_pointstepvalue = a[4]]
          ELSE /\ pc' = "idle"
               /\ control' = TControl_init(a[1], a[2], a[3], a[4], a[5])
    /\ UNCHANGED extvars
    /\ UNCHANGED <<points_output_interval, dpRaiseAt, TurbineType, MapFileName, Mode, states,
                   errors, WF, FG, RD, shaft_list, reg, output_dict, OutputTable,
                   inputpoints, k, successcount, failedcount, x0, solution,
                   result, nruns>>

\* the Control is a TAMcontrol
New_TAMcontrol ==
    /\ pc = "build"
    /\ control' \in TAMcontrols
    /\ pc' = "idle"
    /\ UNCHANGED extvars
    /\ UNCHANGED <<points_output_interval, dpRaiseAt, TurbineType, MapFileName, Mode, states,
                   errors, WF, FG, RD, shaft_list, reg, output_dict, OutputTable,
                   inputpoints, k, successcount, failedcount, x0, solution,
                   result, nruns>>

\* residuals(states): Do_Run(inputpoints[ipoint], states) at an iterate of
\* the solver; an exception of the walk leaves the module state as the walk
\* left it
Residuals ==
    /\ pc = "idle"
    /\ nruns < MaxRuns
    /\ Mode \in {"DP", "OD"}
    /\ \E ipoint \in DOMAIN inputpoints, v \in StateVals, r \in ErrVals,
          f \in {0} \cup ODRaisers :
          /\ ipoint <= MaxWalkPoints
          /\ LET w == Do_Run(inputpoints[ipoint], Uniform(Len(states), v),
                             World, "OD", r, f)
             IN  Store([w EXCEPT !.raised = FALSE])
    /\ Mode' = "OD"
    /\ nruns' = nruns + 1
    /\ UNCHANGED extvars
    /\ UNCHANGED <<control, points_output_interval, dpRaiseAt, TurbineType, MapFileName,
                   inputpoints, pc, k, successcount, failedcount, x0, solution,
                   result>>

NextWalk ==
    \/ New_TControl
    \/ New_TAMcontrol
    \/ Run_DP_simulation
    \/ Run_DP_simulation_Hangs
    \/ Set_inputpoints
    \/ Residuals

SpecWalk == InitWalk /\ [][NextWalk]_vars

\* ------------------------------------------------------------ claims ----
Last(s) == s[Len(s)]
\* a row has been appended to the output table
RowAdded == Len(OutputTable') = Len(OutputTable) + 1
\* a pass of the for loop completes: root() returned a solution
PointSolved == pc = "loop" /\ k' = k + 1
\* a call of Run_DP_simulation
DPStep == pc = "idle" /\ nruns' = nruns + 1 /\ Mode' = "DP"
\* Run_OD_simulation is left
SweepEnds == pc = "loop" /\ pc' = "idle"
\* the first run of the behaviour was a design-point run without exception
DesignPointDone ==
    /\ Len(OutputTable) >= 1
    /\ OutputTable[1].Mode = "DP"
    /\ OutputTable[1].Comment = ""
\* no point so far failed to converge or ended in an exception
AllRowsClean == \A i \in DOMAIN OutputTable : OutputTable[i].Comment = ""

\* C1 (as claimed): when an exception ends the solve of an OD point (the
\* design point having been run), the point is recorded with the 'Exception
\* error' comment and the sweep goes on with the next input point.
C1_SweepContinuesAfterException ==
    [][(/\ DesignPointDone
        /\ pc = "loop"
        /\ RowAdded
        /\ Last(OutputTable').Comment = "Exception error")
          => (pc' = "loop" /\ k' = k + 1)]_vars

\* C2 (amended): when root() returns without success at the iteration
\* limit, the failure is counted and the loop goes on; a row with the
\* comment 'Not converged' is appended exactly when the point is a multiple
\* of points_output_interval, and no row is appended otherwise.
C2_NotConvergedRecordedOnStride ==
    [][(PointSolved /\ solution'.status = 2)
          => /\ pc' = "loop"
             /\ failedcount' = failedcount + 1
             /\ successcount' = successcount
             /\ IF inputpoints[k + 1] % points_output_interval = 0
                THEN /\ RowAdded
                     /\ Last(OutputTable').Comment = "Not converged"
                     /\ Last(OutputTable').Mode = "OD"
                ELSE OutputTable' = OutputTable]_vars

\* C2 (as claimed): whenever root() returns without success at the
\* iteration limit, a row with the comment 'Not converged' is appended for
\* the point and the loop goes on.
C2_NotConvergedAlwaysRecorded ==
    [][(PointSolved /\ solution'.status = 2)
          => (pc' = "loop" /\ RowAdded
              /\ Last(OutputTable').Comment = "Not converged")]_vars

C2_Witness_NotConvergedRow ==
    /\ pc = "loop"
    /\ k >= 1
    /\ solution.status = 2
    /\ failedcount >= 1
    /\ Len(OutputTable) >= 1
    /\ Last(OutputTable).Comment = "Not converged"

\* the design-point walk of this model started from empty vectors
FreshDP ==
    Do_Run(0, <<>>, [World EXCEPT !.states = <<>>, !.errors = <<>>], "DP", 0, 0)

\* C3 (as claimed): after a call of Run_DP_simulation the state vector and
\* the error vector hold exactly the entries the components appended in
\* that call.
C3_DPVectorsHoldOnlyThisRun ==
    [][DPStep => (states' = FreshDP.states /\ errors' = FreshDP.errors)]_vars

\* C4: a call of Run_DP_simulation that directly follows another one (no
\* OD sweep in between) appends a row identical to the previous row.
C4_RepeatedDPRowsIdentical ==
    [][(DPStep /\ Mode = "DP")
          => (RowAdded /\ Last(OutputTable') = Last(OutputTable))]_vars

C4_Witness_TwoDPRows ==
    /\ Mode = "DP"
    /\ nruns = 2
    /\ Len(OutputTable) = 2
    /\ OutputTable[2].Comment = ""
    /\ OutputTable[2].WF = Wfdes
    /\ OutputTable[1] = OutputTable[2]

\* C5 (as claimed): when an OD sweep that follows one successful DP run
\* returns (every point being written, points_output_interval = 1), the
\* output table has one row more than there are input points.
C5_RowsAfterDPAndSweep ==
    [][(/\ SweepEnds
        /\ nruns = 2
        /\ points_output_interval = 1
        /\ DesignPointDone
        /\ result'.kind = "returned")
          => Len(OutputTable') = Len(inputpoints) + 1]_vars

\* C6: from the second point of a sweep on, the initial guess handed to
\* root() is the iterate with which the previous root() call ended, and
\* that whether the previous call succeeded or not.
C6_WarmStartFromPreviousSolution ==
    [][(PointSolved /\ k >= 1) => x0' = solution.x]_vars

C6_Witness_WarmStartAfterFailure ==
    /\ pc = "loop"
    /\ k = 2
    /\ failedcount = 1
    /\ solution.status = 1
    /\ Len(x0) > 0
    /\ x0 # Uniform(Len(x0), One)

\* C7 (as claimed): the first root() call of every Run_OD_simulation starts
\* from states that are all 1, the errors being all 0 (here even with every
\* earlier point converged).
C7_FirstSolveStartsFromOnes ==
    [][(AllRowsClean /\ pc = "loop" /\ k = 0 /\ k' = 1)
          => (x0' = Uniform(Len(x0'), One)
              /\ errors = Uniform(Len(errors), 0))]_vars

\* C8 (as claimed): the PointTime of the walks of the i-th pass of the for
\* loop is the i-th element of inputpoints.
C8_PointTimeIsIthElement ==
    [][PointSolved => output_dict'.PointTime = inputpoints[k + 1]]_vars

\* C9 (as claimed): an OD row with the empty ('converged') comment is written
\* after a walk whose errors are all below ErrorTolerance in magnitude.
C9_ConvergedRowWithinTolerance ==
    [][(PointSolved /\ RowAdded /\ Last(OutputTable').Comment = "")
          => MaxNorm(errors') < ErrorTolerance]_vars

\* C10 (as claimed): when Run_OD_simulation returns (the design point
\* having been run), the successful and the failed points of its summary
\* add up to the number of input points, and the value returned is the
\* number of successful points.
C10_CountsAddUp ==
    [][(DesignPointDone /\ SweepEnds /\ result'.kind = "returned")
          => (result'.value + result'.failed = Len(inputpoints)
              /\ result'.value = successcount)]_vars

\* C11 (as claimed): at every OD point root() reports as converged, the
\* power balance of every shaft holds within the tolerance:
\* |PW_sum| <= ErrorTolerance * PWdes of the turbine driving it.
C11_ShaftPowerBalancedWhenConverged ==
    [][(PointSolved /\ solution'.status = 1 /\ TurbineType = "GG")
          => \A i \in DOMAIN shaft_list' :
                Abs(shaft_list'[i].PW_sum) * One
                    <= ErrorTolerance * reg'["PWdes"]]_vars

\* number of states / residuals the PostRun of the Control registers at DP
ControlRegistrations ==
    IF ClosedLoop(control) THEN 1
    ELSE IF control.kind = "TAMcontrol" THEN control.nmapmod
    ELSE 0

\* a call of Run_DP_simulation that returns, its walk having raised no
\* exception
DPStepDone == DPStep /\ pc' = "idle" /\ Last(OutputTable').Comment = ""

\* C12: in a design-point pass the turbine registers exactly one beta state
\* and one mass-flow residual; a 'GG' turbine registers exactly one
\* shaft-power residual besides, and a turbine of another type none (the
\* residual that follows the turbine's mass-flow residual is the nozzle's).
C12_TurbineRegistrations ==
    [][DPStepDone =>
          /\ reg'["istate_beta_t"] = Len(states) + 4
          /\ Len(states') = reg'["istate_beta_t"] + ControlRegistrations
          /\ reg'["ierror_wc_t"] = Len(errors) + 2
          /\ IF TurbineType = "GG"
             THEN /\ reg'["ierror_shaftpw"] = reg'["ierror_wc_t"] + 1
                  /\ reg'["ierror_w"] = reg'["ierror_shaftpw"] + 1
             ELSE /\ reg'["ierror_shaftpw"] = 0
                  /\ reg'["ierror_w"] = reg'["ierror_wc_t"] + 1
          /\ Len(errors') = reg'["ierror_w"] + ControlRegistrations]_vars

C12_Witness_PTTurbineAfterDP ==
    /\ TurbineType = "PT"
    /\ Mode = "DP"
    /\ Len(OutputTable) = 2
    /\ Last(OutputTable).Comment = ""
    /\ reg["istate_beta_t"] = Len(states) - ControlRegistrations
    /\ reg["ierror_wc_t"] > 0
    /\ reg["ierror_shaftpw"] = 0


WalkDone ==
    /\ pc = "idle"
    /\ Mode' = "OD"
    /\ nruns' = nruns + 1
    /\ FG' = FGnozzle

\* C14: a closed-loop Control registers exactly one state and one residual
\* in the design-point pass (the last ones of the pass), an open-loop
\* Control none; every complete OD walk writes (demand - value) / DP value
\* of the controlled parameter into the residual of the closed-loop Control,
\* the value being the one this walk has put into the output dictionary.
C14_ClosedLoopControlResidual ==
    [][/\ (DPStepDone /\ control.kind = "TControl") =>
             IF ClosedLoop(control)
             THEN /\ reg'["istate_control"] = reg'["istate_beta_t"] + 1
                  /\ Len(states') = reg'["istate_control"]
                  /\ reg'["ierror_control"] = reg'["ierror_w"] + 1
                  /\ Len(errors') = reg'["ierror_control"]
                  /\ reg'["DP_controlparvalue"] = 100 * 100
             ELSE /\ Len(states') = reg'["istate_beta_t"]
                  /\ Len(errors') = reg'["ierror_w"]
                  /\ reg'["istate_control"] = 0
                  /\ reg'["ierror_control"] = 0
       /\ (WalkDone /\ ClosedLoop(control)) =>
             LET demand == (control.OD_startvalue
                              + output_dict'.PointTime * control.OD_pointstepvalue)
                           * 100
                 value == (100 * 100 * states'[reg["istate_n"]]) \div One
             IN  /\ errors'[reg["ierror_control"]]
                       = ((demand - value) * One) \div reg["DP_controlparvalue"]
                 /\ Len(states') = Len(states)
                 /\ Len(errors') = Len(errors)]_vars

C14_Witness_ControlResidualWritten ==
    /\ ClosedLoop(control)
    /\ Mode = "OD"
    /\ FG = FGnozzle
    /\ output_dict.PointTime = 1
    /\ states[reg["istate_n"]] = One \div 2
    /\ errors[reg["ierror_control"]] = ((95 - 50) * One) \div 100


\* C15: constructing a TControl with a zero step, or with a step whose sign
\* is opposite to that of (end - start), fails in the constructor: no
\* control exists and nothing is run afterwards; with any other values the
\* control is constructed.
C15_InvalidSweepFailsAtConstruction ==
    [][/\ (pc = "build" /\ control'.kind # "TAMcontrol") =>
             IF \/ control'.OD_pointstepvalue = 0
                \/ /\ control'.OD_endvalue > control'.OD_startvalue
                   /\ control'.OD_pointstepvalue < 0
                \/ /\ control'.OD_endvalue < control'.OD_startvalue
                   /\ control'.OD_pointstepvalue > 0
             THEN pc' = "failed" /\ control'.kind = "None"
             ELSE pc' = "idle" /\ control'.kind = "TControl"
       /\ pc # "failed"]_vars

C15_Witness_WrongSignRejected ==
    /\ pc = "failed"
    /\ control.kind = "None"
    /\ control.OD_pointstepvalue > 0
    /\ control.OD_endvalue < control.OD_startvalue
    /\ nruns = 0
    /\ ExtIdle


\* the caller obtains the input points of a TControl
GetsInputpoints ==
    /\ pc = "idle"
    /\ control.kind = "TControl"
    /\ inputpoints = <<>>
    /\ inputpoints' # <<>>

\* C16: Get_OD_inputpoints of a TControl returns the consecutive indices
\* 0 .. n-1 with n = |end - start| / |step| + 1 (to the nearest integer when
\* the step does not divide the range): 31 points for 0.38 to 0.08 in steps
\* of -0.01, 9 for 100 to 60 in steps of -5, 11 for 1600 to 1100 in steps
\* of -50.
C16_InputpointsAreZeroToNMinusOne ==
    [][GetsInputpoints =>
          LET n == Len(inputpoints')
              range == Abs(control.OD_endvalue - control.OD_startvalue)
              step == Abs(control.OD_pointstepvalue)
          IN  /\ inputpoints' = [i \in 1..n |-> i - 1]
              /\ range % step = 0 => n = range \div step + 1
              /\ 2 * Abs((n - 1) * step - range) <= step
              /\ (/\ control.OD_startvalue = 38 /\ control.OD_endvalue = 8
                  /\ control.OD_pointstepvalue = -1) => n = 31
              /\ (/\ control.OD_startvalue = 100 /\ control.OD_endvalue = 60
                  /\ control.OD_pointstepvalue = -5) => n = 9
              /\ (/\ control.OD_startvalue = 1600 /\ control.OD_endvalue = 1100
                  /\ control.OD_pointstepvalue = -50) => n = 11]_vars

C16_Witness_ThirtyOnePoints ==
    /\ control.kind = "TControl"
    /\ control.OD_startvalue = 38
    /\ control.OD_endvalue = 8
    /\ Len(inputpoints) = 31
    /\ inputpoints[1] = 0
    /\ inputpoints[31] = 30


\* C17 (as claimed): a map file that is missing or has no header makes the
\* load fail with an exception that is fatal for the run: once the design
\* point has met it, no OD point is attempted and no OD row is written.
C17_MapLoadFailureIsFatal ==
    [][(/\ MapFileName # "present"
        /\ Len(OutputTable) >= 1
        /\ OutputTable[1].Mode = "DP"
        /\ OutputTable[1].Comment = "Exception error")
          => ~(RowAdded /\ Last(OutputTable').Mode = "OD")]_vars


\* C18: after a design-point pass over the turbojet (its turbine of type
\* 'GG', whatever the Control) that raised no exception, fsys.states and
\* fsys.errors have the same length.
C18_StatesAndErrorsSameLength ==
    [][(DPStepDone /\ TurbineType = "GG")
          => (Len(states') = Len(errors') /\ Len(states') > Len(states))]_vars

C18_Witness_SquareSystemAfterDP ==
    /\ Mode = "DP"
    /\ nruns = 1
    /\ Last(OutputTable).Comment = ""
    /\ TurbineType = "GG"
    /\ ClosedLoop(control)
    /\ Len(states) = 5
    /\ Len(errors) = 5


\* C19: in a walk every component has run and written its output, and the
\* system-level output is written, before any PostRun acts: the PostRun of
\* a closed-loop Control reads the controlled parameter as this walk has
\* produced it.  At DP the value kept is the one of the DP walk; at OD the
\* residual is formed with the shaft speed of the iterate of this walk and
\* the output dictionary holds the totals of this walk.
C19_PostRunReadsCurrentWalk ==
    [][/\ (DPStepDone /\ ClosedLoop(control)) =>
             /\ output_dict'.N1 = 100 * 100
             /\ reg'["DP_controlparvalue"] = output_dict'.N1
       /\ (WalkDone /\ ClosedLoop(control)) =>
             /\ output_dict'.N1 = (100 * 100 * states'[reg["istate_n"]]) \div One
             /\ output_dict'.WF = WF'
             /\ output_dict'.FG = FG'
             /\ errors'[reg["ierror_control"]] * reg["DP_controlparvalue"]
                   <= (SweepValue(control, output_dict'.PointTime) * 100
                          - output_dict'.N1) * One
             /\ (errors'[reg["ierror_control"]] + 1) * reg["DP_controlparvalue"]
                   > (SweepValue(control, output_dict'.PointTime) * 100
                          - output_dict'.N1) * One]_vars

C19_Witness_SpeedChangedBetweenWalks ==
    /\ ClosedLoop(control)
    /\ Mode = "OD"
    /\ FG = FGnozzle
    /\ output_dict.PointTime = 0
    /\ output_dict.N1 = 50 * 100
    /\ Last(OutputTable).N1 = 100 * 100
    /\ errors[reg["ierror_control"]] = One \div 2


\* the fuel flow the combustor adds in an OD walk: the input value the
\* Control hands it, clamped at zero
FuelOfWalk(PointTime, st) ==
    LET Inputvalue ==
           IF control.kind = "TAMcontrol" THEN control.Wf_meas + PointTime
           ELSE IF ClosedLoop(control)
           THEN (control.DP_inputvalue * st[reg["istate_control"]]) \div One
           ELSE SweepValue(control, PointTime)
    IN  IF Inputvalue < 0 THEN 0 ELSE Inputvalue

\* C20: every walk starts from PW_sum = 0 on every shaft and FG = RD = WF =
\* 0, so that after a walk the totals hold the contributions of that walk
\* alone: WF is the fuel flow its combustor added, FG and RD the thrust and
\* drag of its nozzle and inlet, PW_sum the power its turbine left
\* unbalanced (one of the fractions ErrVals of PWdes).
C20_TotalsHoldThisWalkOnly ==
    [][/\ DPStepDone =>
             /\ WF' = Wfdes
             /\ FG' = FGnozzle
             /\ RD' = RDinlet
             /\ \A i \in DOMAIN shaft_list' : shaft_list'[i].PW_sum = 0
       /\ WalkDone =>
             /\ WF' = FuelOfWalk(output_dict'.PointTime, states')
             /\ FG' = FGnozzle
             /\ RD' = RDinlet
             /\ \A i \in DOMAIN shaft_list' :
                   shaft_list'[i].PW_sum
                      \in { (r * reg["PWdes"]) \div One : r \in ErrVals }
       /\ (pc = "idle" /\ nruns' = nruns + 1) =>
             /\ WF' <= SetMax({Wfdes, 1600})
             /\ FG' \in {0, FGnozzle}
             /\ RD' \in {0, RDinlet}]_vars

C20_Witness_SecondWalkTotals ==
    /\ Mode = "OD"
    /\ nruns = 3
    /\ Len(OutputTable) = 1
    /\ FG = FGnozzle
    /\ WF = Wfdes - 1
    /\ output_dict.PointTime = 1
    /\ shaft_list[1].PW_sum = (5 * ErrorTolerance * reg["PWdes"]) \div One


\* ------------------------------------------------ shaft-speed states ----
\* System models of up to MaxTurbo turbo components on the shafts ShaftNrs:
\* the design-point walk registers the shaft-speed states, the off-design
\* walk recovers every rotor speed from them.
MaxTurbo == 3
ShaftNrs == {1, 2}
TurboKinds == {"Compressor", "Fan", "Turbine"}

\* TTurboComponent.__init__: ShaftNr, N = Ndes (speeds relative to Ndes);
\* the component has no istate_n until its design-point Run
NewTurbo(kind, ShaftNr) == [kind |-> kind, ShaftNr |-> ShaftNr, istate_n |-> 0, N |-> One]

\* the system models: every (gas generator) turbine comes after a compressor
\* or fan of its shaft, as the gas path of an engine has it
SystemModels ==
    { m \in UNION { [1..n -> { NewTurbo(kd, nr) : kd \in TurboKinds, nr \in ShaftNrs }] : n \in 1..MaxTurbo } :
        \A i \in DOMAIN m :
            m[i].kind = "Turbine"
            => \E j \in 1..(i - 1) : /\ m[j].kind # "Turbine"
                                     /\ m[j].ShaftNr = m[i].ShaftNr }

\* the walk state: fsys.states, the components and shaft.istate per ShaftNr
\* np.append(fsys.states, 1), n times
AppendStates(t, n) == [t EXCEPT !.states = @ \o [j \in 1..n |-> One]]

\* TFan.Run: at DP the fan appends its rotor-speed state (and the states of
\* BPR, beta core and beta duct) and makes it the state of the shaft; at OD
\* N = fsys.states[self.istate_n] * Ndes
TFan_Run_Speed(t, i, mode) ==
    IF mode = "DP"
    THEN LET n == Len(t.states) + 1 IN
         [AppendStates(t, 4) EXCEPT !.comps[i].istate_n = n,
                                    !.istate[t.comps[i].ShaftNr] = n]
    ELSE [t EXCEPT !.comps[i].N = t.states[t.comps[i].istate_n]]

\* TCompressor.Run: at DP the compressor appends its rotor-speed state (and
\* its beta state) and makes it the state of the shaft; at OD
\* N = states[self.istate_n] * Ndes
TCompressor_Run_Speed(t, i, mode) ==
    IF mode = "DP"
    THEN LET n == Len(t.states) + 1 IN
         [AppendStates(t, 2) EXCEPT !.comps[i].istate_n = n,
                                    !.istate[t.comps[i].ShaftNr] = n]
    ELSE [t EXCEPT !.comps[i].N = t.states[t.comps[i].istate_n]]

\* TTurbine.Run: at DP the turbine appends its beta state only; at OD
\* N = fsys.states[self.shaft.istate] * Ndes
TTurbine_Run_Speed(t, i, mode) ==
    IF mode = "DP"
    THEN AppendStates(t, 1)
    ELSE [t EXCEPT !.comps[i].N = t.states[t.istate[t.comps[i].ShaftNr]]]

\* Do_Run over the turbo components: for comp in system_model: comp.Run
RECURSIVE TurboWalk(_, _, _)
TurboWalk(t, i, mode) ==
    IF i > Len(t.comps) THEN t
    ELSE LET kind == t.comps[i].kind
             t1 == CASE kind = "Fan"        -> TFan_Run_Speed(t, i, mode)
                     [] kind = "Compressor" -> TCompressor_Run_Speed(t, i, mode)
                     [] kind = "Turbine"    -> TTurbine_Run_Speed(t, i, mode)
         IN  TurboWalk(t1, i + 1, mode)

\* the state vectors the solver hands to the walk
StatePars(n) == { Uniform(n, v) : v \in StateVals } \cup { [j \in 1..n |-> One + j] }

InitShafts ==
    /\ FanMapApiIdle
    /\ turbo_components \in SystemModels
    /\ shaft_istate = [nr \in ShaftNrs |-> 0]
    /\ V = RDinlet
    /\ combustor_Wf = 0
    /\ returned = {}
    /\ control = NoControl
    /\ points_output_interval = 1
    /\ MapFileName = "present"
    /\ dpRaiseAt = 0
    /\ TurbineType = "GG"
    /\ Mode = "None"
    /\ states = <<>>
    /\ errors = <<>>
    /\ WF = 0
    /\ FG = 0
    /\ RD = 0
    /\ shaft_list = NewShafts
    /\ reg = [n \in RegNames |-> 0]
    /\ output_dict = NoOutput
    /\ OutputTable = <<>>
    /\ inputpoints = <<>>
    /\ pc = "idle"
    /\ k = 0
    /\ successcount = 0
    /\ failedcount = 0
    /\ x0 = <<>>
    /\ solution = NoSolution
    /\ result = NoResult
    /\ nruns = 0

shaftsframe == <<control, points_output_interval, dpRaiseAt, TurbineType,
                 MapFileName, errors, WF, FG, RD, shaft_list, reg,
                 output_dict, OutputTable, inputpoints, pc, k, successcount,
                 failedcount, x0, solution, result, nruns, V, combustor_Wf, returned,
                 fan, mapvars, apivars>>

\* fsys.Mode = 'DP'; the design-point walk of the turbo components
Shafts_DP ==
    /\ Mode = "None"
    /\ LET t == TurboWalk([states |-> states, comps |-> turbo_components,
                           istate |-> shaft_istate], 1, "DP")
       IN  /\ states' = t.states
           /\ turbo_components' = t.comps
           /\ shaft_istate' = t.istate
    /\ Mode' = "DP"
    /\ UNCHANGED shaftsframe

\* fsys.Mode = 'OD'; residuals(states_par): the off-design walk
Shafts_OD ==
    /\ Mode \in {"DP", "OD"}
    /\ \E states_par \in StatePars(Len(states)) :
          LET t == TurboWalk([states |-> states_par, comps |-> turbo_components,
                              istate |-> shaft_istate], 1, "OD")
          IN  /\ states' = t.states
              /\ turbo_components' = t.comps
              /\ shaft_istate' = t.istate
    /\ Mode' = "OD"
    /\ UNCHANGED shaftsframe

NextShafts ==
    \/ Shafts_DP
    \/ Shafts_OD

SpecShafts == InitShafts /\ [][NextShafts]_vars


\* the index of the state a turbo component derives its rotor speed from
SpeedIndex(c) ==
    IF c.kind = "Turbine" THEN shaft_istate[c.ShaftNr] ELSE c.istate_n
\* the shaft-speed states registered for the shaft ShaftNr
SpeedStates(ShaftNr) ==
    { turbo_components[i].istate_n :
        i \in { j \in DOMAIN turbo_components :
                  /\ turbo_components[j].kind # "Turbine"
                  /\ turbo_components[j].ShaftNr = ShaftNr } }

\* C21: once the design point is done, every shaft with turbo components
\* has exactly one shaft-speed state in the state vector, and every turbo
\* component of the shaft (compressor, fan, turbine) derives its rotor speed
\* from the state of that one index.
C21_OneSpeedStatePerShaft ==
    Mode \in {"DP", "OD"}
    => \A i \in DOMAIN turbo_components :
          LET c == turbo_components[i] IN
          /\ Cardinality(SpeedStates(c.ShaftNr)) = 1
          /\ SpeedStates(c.ShaftNr) = {SpeedIndex(c)}


\* ---------------------------------- walks with a Texit-controlled combustor ----
\* A turbojet whose combustor is given its exit temperature: the Control
\* sweeps Texit, the combustor finds the fuel flow by an inner root search.
\* Flows in 0.01 kg/s, temperatures in K.
Wairdes == 1990
Texitdes == 1500
\* temperature of the air entering the combustor, and the temperature rise
\* per unit fuel-air ratio (LHV * Etades / cp); the air burns fuel up to the
\* stoichiometric fuel-air ratio 1 / AirPerFuel
Tin == 700
Kc == 37000
AirPerFuel == 15
\* number of steps of the inner root search
InnerMaxfev == 3

\* FuelControl = TControl('Control', '', Wfdes, 1500, 3500, 2000, None): an
\* open-loop sweep of the combustor exit temperature
TexitControl == TControl_init(Wfdes, Texitdes, 3500, 2000, "None")

\* CalcEndConditions: the exit temperature for fuel flow Wf_ in air flow w_air
CalcEndConditions(Wf_, w_air) ==
    LET burnt == IF Wf_ * AirPerFuel > w_air THEN w_air \div AirPerFuel
                 ELSE IF Wf_ < 0 THEN 0 ELSE Wf_
    IN  Tin + (burnt * Kc) \div w_air

\* the iterates of root(equation, x0 = Wf0): the last fuel flow equation()
\* was called with
RECURSIVE RootIterates(_, _, _, _)
RootIterates(Wfiter, Texit, w_air, n) ==
    IF n = 0 THEN Wfiter
    ELSE RootIterates(Wfiter + ((Texit - CalcEndConditions(Wfiter, w_air)) * w_air) \div Kc,
                      Texit, w_air, n - 1)

\* solution = root(equation, x0 = Wf0) with equation(Wfiter) =
\* CalcEndConditions - Texit and self.Wf = Wfiter[0] in every call: where a
\* root exists the search finds it (to a precision finer than the fuel-flow
\* unit), where none exists it fails and self.Wf stays at the last iterate
InnerRoot(Wf0, Texit, w_air) ==
    IF Texit <= CalcEndConditions(w_air \div AirPerFuel, w_air)
    THEN [success |-> TRUE, x |-> ((Texit - Tin) * w_air + Kc - 1) \div Kc]
    ELSE [success |-> FALSE, x |-> RootIterates(Wf0, Texit, w_air, InnerMaxfev)]

\* TCombustor.Run with Texit given: Texitdes at DP, the Control's Inputvalue
\* at OD; Wf0 = self.Wf, and self.Wf is what the search leaves
TCombustor_Run_Texit(Wf0, w_air, mode, Inputvalue) ==
    InnerRoot(Wf0, IF mode = "DP" THEN Texitdes ELSE Inputvalue, w_air).x

\* the mass-flow residual of the turbine, (W - GasIn.mass) / Wdes: the gas
\* of the combustor is the air and the fuel, the map flow follows the beta
\* state
TurbineFlowError(w_air, Wf_, beta) ==
    LET Wdes == Wairdes + Wfdes
    IN  (((Wdes * beta) \div One - (w_air + Wf_)) * One) \div Wdes

\* Do_Run(PointTime, states_par) of this model: the inlet flow state, the
\* Control, the combustor and the turbine; the errors returned and self.Wf
TexitWalk(PointTime, states_par, Wf0, mode) ==
    LET w_air == (Wairdes * states_par[1]) \div One
        w == TControl_Run([World EXCEPT !.states = states_par], mode, PointTime)
        Wf1 == TCombustor_Run_Texit(Wf0, w_air, mode, w.Inputvalue)
    IN  [Wf |-> Wf1,
         errors |-> IF mode = "DP" THEN <<0>>
                    ELSE << TurbineFlowError(w_air, Wf1, states_par[2]) >>]

InitTexit ==
    /\ FanMapApiIdle
    /\ control = TexitControl
    /\ inputpoints = TControl_Get_OD_inputpoints(TexitControl)
    /\ combustor_Wf = Wfdes
    /\ V = RDinlet
    /\ returned = {}
    /\ turbo_components = <<>>
    /\ shaft_istate = <<>>
    /\ points_output_interval = 1
    /\ MapFileName = "present"
    /\ dpRaiseAt = 0
    /\ TurbineType = "GG"
    /\ Mode = "None"
    /\ states = <<>>
    /\ errors = <<>>
    /\ WF = 0
    /\ FG = 0
    /\ RD = 0
    /\ shaft_list = NewShafts
    /\ reg = [n \in RegNames |-> 0]
    /\ output_dict = NoOutput
    /\ OutputTable = <<>>
    /\ pc = "idle"
    /\ k = 0
    /\ successcount = 0
    /\ failedcount = 0
    /\ x0 = <<>>
    /\ solution = NoSolution
    /\ result = NoResult
    /\ nruns = 0

texitframe == <<control, points_output_interval, dpRaiseAt, TurbineType,
                MapFileName, WF, FG, RD, shaft_list, reg, output_dict,
                OutputTable, inputpoints, pc, k, successcount, failedcount,
                x0, solution, result, turbo_components, shaft_istate, V,
                fan, mapvars, apivars>>

\* fsys.Mode = 'DP'; Do_Run(0, states): the design point registers the
\* inlet flow state, the beta state and the flow residual of the turbine
Texit_DP ==
    /\ Mode = "None"
    /\ LET t == TexitWalk(0, <<One, One>>, combustor_Wf, "DP")
       IN  /\ states' = <<One, One>>
           /\ errors' = t.errors
           /\ combustor_Wf' = t.Wf
    /\ Mode' = "DP"
    /\ UNCHANGED <<nruns, returned>>
    /\ UNCHANGED texitframe

\* fsys.Mode = 'OD'; residuals(states_par) = Do_Run(inputpoints[ipoint],
\* states_par) at an iterate of the solver
Texit_Residuals ==
    /\ Mode \in {"DP", "OD"}
    /\ nruns < MaxRuns
    /\ \E ipoint \in DOMAIN inputpoints, s1 \in StateVals, s2 \in StateVals :
          LET PointTime == inputpoints[ipoint]
              t == TexitWalk(PointTime, <<s1, s2>>, combustor_Wf, "OD")
          IN  /\ states' = <<s1, s2>>
              /\ errors' = t.errors
              /\ combustor_Wf' = t.Wf
              /\ returned' = returned \cup { <<PointTime, <<s1, s2>>, t.errors>> }
    /\ Mode' = "OD"
    /\ nruns' = nruns + 1
    /\ UNCHANGED texitframe

NextTexit ==
    \/ Texit_DP
    \/ Texit_Residuals

SpecTexit == InitTexit /\ [][NextTexit]_vars

\* C22: two forward walks with the same PointTime and the same state vector
\* return the same error vector, whatever walks were done in between.
C22_WalkIsAFunctionOfPointAndStates ==
    \A a \in returned, b \in returned :
        (a[1] = b[1] /\ a[2] = b[2]) => a[3] = b[3]


\* --------------------------------------- closed-loop control of thrust ----
\* The turbojet under a Control that is closed loop on the net thrust FN or
\* on N1%, at the usual flight speed and at the speed at which the ram drag
\* equals the gross thrust of the design point.  Set points are given in
\* hundredths, as those of N1%.
ThrustControlArgs ==
    { <<Wfdes, 150, 100, -25, "FN">>,
      <<111, 100, 60, -5, "N1%">> }

InitThrust ==
    /\ FanMapApiIdle
    /\ control = NoControl
    /\ V \in {RDinlet, FGnozzle}
    /\ turbo_components = <<>>
    /\ shaft_istate = <<>>
    /\ combustor_Wf = 0
    /\ returned = {}
    /\ points_output_interval = 1
    /\ MapFileName = "present"
    /\ dpRaiseAt = 0
    /\ TurbineType = "GG"
    /\ Mode = "None"
    /\ states = <<>>
    /\ errors = <<>>
    /\ WF = 0
    /\ FG = 0
    /\ RD = 0
    /\ shaft_list = NewShafts
    /\ reg = [n \in RegNames |-> 0]
    /\ output_dict = NoOutput
    /\ OutputTable = <<>>
    /\ inputpoints = <<>>
    /\ pc = "build"
    /\ k = 0
    /\ successcount = 0
    /\ failedcount = 0
    /\ x0 = <<>>
    /\ solution = NoSolution
    /\ result = NoResult
    /\ nruns = 0

\* FuelControl = TControl(name, '', DP_inputvalue, OD_startvalue,
\* OD_endvalue, OD_pointstepvalue, OD_controlledparname)
New_ThrustControl ==
    /\ pc = "build"
    /\ \E a \in ThrustControlArgs :
          /\ ~TControl_init_Raises(a[2], a[3], a[4])
          /\ control' = TControl_init(a[1], a[2], a[3], a[4], a[5])
    /\ pc' = "idle"
    /\ UNCHANGED extvars
    /\ UNCHANGED <<points_output_interval, dpRaiseAt, TurbineType, MapFileName, Mode, states,
                   errors, WF, FG, RD, shaft_list, reg, output_dict, OutputTable,
                   inputpoints, k, successcount, failedcount, x0, solution,
                   result, nruns>>

NextThrust ==
    \/ New_ThrustControl
    \/ Run_DP_simulation
    \/ Set_inputpoints
    \/ Residuals

SpecThrust == InitThrust /\ [][NextThrust]_vars

\* C23: an OD walk that reaches the PostRun of a closed-loop Control finds
\* a DP value of the controlled parameter that is not zero: no OD evaluation
\* divides by a zero DP value.
C23_NoDivisionByZeroDPValue ==
    [][(WalkDone /\ ClosedLoop(control) /\ reg["ierror_control"] # 0)
          => reg["DP_controlparvalue"] # 0]_vars


\* ------------------------------------------- adaptive-model controls ----
\* The turbojet under a TAMcontrol with up to MaxMapMods map modifiers and
\* measured parameters and with the fuel flow, the shaft speed or the
\* combustor exit temperature as power setting.
MaxMapMods == 2
PowerSettings == {"Wf", "N1%", "Texit"}

\* AMcontrol = TAMcontrol(name, measdatafilename, (combustor1, psetpar),
\* ambientparnamelist, measparnametuple, mapmod_comps_pars_tuple)
AMcontrols ==
    { [c EXCEPT !.nmapmod = nm, !.nmeaspar = np, !.psetpar = ps] :
        c \in TAMcontrols, nm \in 1..MaxMapMods, np \in 1..MaxMapMods,
        ps \in PowerSettings }

InitAM ==
    /\ control = NoControl
    /\ TurbineType \in {"GG", "PT"}
    /\ ExtIdle
    /\ points_output_interval = 1
    /\ MapFileName = "present"
    /\ dpRaiseAt = 0
    /\ Mode = "None"
    /\ states = <<>>
    /\ errors = <<>>
    /\ WF = 0
    /\ FG = 0
    /\ RD = 0
    /\ shaft_list = NewShafts
    /\ reg = [n \in RegNames |-> 0]
    /\ output_dict = NoOutput
    /\ OutputTable = <<>>
    /\ inputpoints = <<>>
    /\ pc = "build"
    /\ k = 0
    /\ successcount = 0
    /\ failedcount = 0
    /\ x0 = <<>>
    /\ solution = NoSolution
    /\ result = NoResult
    /\ nruns = 0

New_AMcontrol ==
    /\ pc = "build"
    /\ control' \in AMcontrols
    /\ pc' = "idle"
    /\ UNCHANGED extvars
    /\ UNCHANGED <<points_output_interval, dpRaiseAt, TurbineType, MapFileName, Mode, states,
                   errors, WF, FG, RD, shaft_list, reg, output_dict, OutputTable,
                   inputpoints, k, successcount, failedcount, x0, solution,
                   result, nruns>>

NextAM ==
    \/ New_AMcontrol
    \/ Run_DP_simulation
    \/ Set_inputpoints
    \/ Residuals

SpecAM == InitAM /\ [][NextAM]_vars

\* states and residuals the components other than the Control register in
\* a design-point pass
OtherStates == 4
OtherErrors == IF TurbineType = "GG" THEN 4 ELSE 3

\* C24: in a design-point pass the TAMcontrol registers one state and one
\* residual per declared map modifier, and one more state (the Wf scale
\* factor) exactly when the power setting is not the fuel flow.
C24_AMRegistrations ==
    [][(DPStepDone /\ control.kind = "TAMcontrol") =>
          /\ Len(states') - Len(states)
                = OtherStates + control.nmapmod
                  + (IF control.psetpar # "Wf" THEN 1 ELSE 0)
          /\ Len(errors') - Len(errors) = OtherErrors + control.nmapmod]_vars


\* C25: in every complete OD walk the TAMcontrol reads its map-modifier
\* states from the positions it registered at DP and writes its measured-
\* parameter residuals to the residual positions it registered at DP (the
\* last nmapmod entries of the error vector), whatever the other components
\* have registered and however many measured parameters there are: each of
\* these entries then holds the residual value of this walk, as the mass-flow
\* residual of the compressor does, and the vectors keep their length.
C25_AMPositionsAsRegistered ==
    [][(WalkDone /\ control.kind = "TAMcontrol"
                 /\ reg["first_map_mod_stateindex"] # 0) =>
          /\ Len(states') - control.nmapmod + 1 = reg["first_map_mod_stateindex"]
          /\ \A i \in 0..(control.nmapmod - 1) :
                i < control.nmeaspar
                => errors'[Len(errors) - control.nmapmod + 1 + i]
                      = errors'[reg["ierror_wc_c"]]
          /\ Len(errors') = Len(errors)]_vars


\* residual positions the components other than the Control registered in the
\* design-point pass (ierror_shaftpw is registered by a 'GG' turbine only)
OtherResiduals ==
    { reg[n] : n \in {"ierror_wc_c", "ierror_wc_t", "ierror_shaftpw", "ierror_w"} } \ {0}

\* C26: the out-of-bounds penalty of a map-modifier state is added to the
\* residuals of the TAMcontrol only: after every complete OD walk of a model
\* with a TAMcontrol the residuals registered by the other components hold
\* what these components wrote in the walk (one residual value r of the
\* walk), whatever the map-modifier states are.
C26_PenaltyOnOwnResidualsOnly ==
    [][(WalkDone /\ control.kind = "TAMcontrol"
                 /\ reg["first_map_mod_stateindex"] # 0) =>
          \E r \in ErrVals : \A j \in OtherResiduals : errors'[j] = r]_vars


\* ------------------------------------------------------------- the fan ----
\* A specification of the walks of a turbofan model up to and including its
\* fan: the design-point walk, and OD walks at iterates of the solver.  Mass
\* flows are in 0.01 kg/s, bypass ratios in thousandths.

BPRScale == 1000
\* TFan('FAN_BST', ..., BPRdes = 5.3, ...) behind TInlet(..., Wdes = 337)
BPRdes  == 5300
Wfandes == 33700
\* inlet flows that reach the fan in a walk: the design flow and a lower one
FanGasIn == {Wfandes, 30000}
\* scaled map flows relative to the design map flow that a map look-up at
\* (Nc, beta) yields: the design flow itself, and nine tenths of it
MapFlowFactors == {One, (9 * One) \div 10}
\* specific enthalpy rise of the core and of the duct side compression
FanDhCore == 2
FanDhDuct == 1

\* the part of the flow W that goes to the core and to the duct at bypass
\* ratio BPR: W / (BPR + 1) and W * BPR / (BPR + 1)
SplitCore(W, BPR) == (W * BPRScale) \div (BPR + BPRScale)
SplitDuct(W, BPR) == (W * BPR) \div (BPR + BPRScale)

\* fu.Compression: PW = GasOut.H - GasOut.mass * GasIn.phase.enthalpy_mass,
\* the mass flow of GasOut times the specific enthalpy rise
Compression(GasOut_mass, dh) == GasOut_mass * dh

\* TFan.Run; Wc_core and Wc_duct are what the two maps return at OD
TFan_Run(f, w, mode, GasIn_mass, Wc_core, Wc_duct) ==
    LET BPR == IF mode = "DP" THEN BPRdes
               ELSE (w.states[f.istate_BPR] * BPRdes) \div One
        W_core_in == SplitCore(GasIn_mass, BPRdes)
        W_duct_in == SplitDuct(GasIn_mass, BPRdes)
        GasOut_mass == SplitCore(GasIn_mass, BPR)
        GasOut_duct_mass == SplitDuct(GasIn_mass, BPR)
        PW == Compression(GasOut_mass, FanDhCore)
              + Compression(GasOut_duct_mass, FanDhDuct)
        w1 == AddShaftPower(w, 1, -PW)
        f1 == [f EXCEPT !.GasIn_mass = GasIn_mass, !.BPR = BPR,
                        !.W_core_in = W_core_in, !.W_duct_in = W_duct_in,
                        !.PW = PW]
    IN  IF mode = "DP"
        THEN LET w2 == AppendState(AppendState(AppendState(AppendState(w1))))
                 w3 == AppendError(AppendError(w2))
             IN  [fan |-> [f1 EXCEPT !.Wdes = GasIn_mass,
                                     !.Wdes_core_in = W_core_in,
                                     !.Wdes_duct_in = W_duct_in,
                                     !.GasOut_mass = GasOut_mass,
                                     !.GasOut_duct_mass = GasOut_duct_mass,
                                     !.istate_n = Len(w1.states) + 1,
                                     !.istate_BPR = Len(w1.states) + 2,
                                     !.istate_beta_core = Len(w1.states) + 3,
                                     !.istate_beta_duct = Len(w1.states) + 4,
                                     !.ierror_wc_core = Len(w1.errors) + 1,
                                     !.ierror_wc_duct = Len(w1.errors) + 2],
                  w |-> w3]
        ELSE LET W_core == Wc_core
                 W_duct == Wc_duct
                 w2 == [w1 EXCEPT
                          !.errors[f.ierror_wc_core] =
                              ((W_core - W_core_in) * One) \div f.Wdes,
                          !.errors[f.ierror_wc_duct] =
                              ((W_duct - W_duct_in) * One) \div f.Wdes]
             IN  [fan |-> [f1 EXCEPT !.W_core = W_core, !.W_duct = W_duct,
                                     !.GasOut_mass = W_core,
                                     !.GasOut_duct_mass = W_duct],
                  w |-> w2]

InitFan ==
    /\ control = NoControl
    /\ points_output_interval = 1
    /\ MapFileName = "present"
    /\ dpRaiseAt = 0
    /\ TurbineType = "GG"
    /\ Mode = "None"
    /\ states = <<>>
    /\ errors = <<>>
    /\ WF = 0
    /\ FG = 0
    /\ RD = 0
    /\ shaft_list = NewShafts
    /\ reg = [n \in RegNames |-> 0]
    /\ output_dict = NoOutput
    /\ OutputTable = <<>>
    /\ inputpoints = <<>>
    /\ pc = "idle"
    /\ k = 0
    /\ successcount = 0
    /\ failedcount = 0
    /\ x0 = <<>>
    /\ solution = NoSolution
    /\ result = NoResult
    /\ nruns = 0
    /\ ExtIdle

fanframe == <<control, points_output_interval, dpRaiseAt, TurbineType,
              MapFileName, inputpoints, pc, k, successcount, failedcount,
              x0, solution, result, nruns, walkvars, mapvars, apivars>>

\* fsys.Mode = 'DP'; Do_Run(0, states) as far as the fan
Fan_DP ==
    /\ Mode = "None"
    /\ LET t == TFan_Run(fan, reinit_system(World), "DP", Wfandes, 0, 0)
       IN  /\ fan' = t.fan
           /\ Store(t.w)
    /\ Mode' = "DP"
    /\ UNCHANGED fanframe

\* residuals(states): Do_Run(PointTime, states) as far as the fan, at an
\* iterate of the solver
Fan_OD ==
    /\ Mode \in {"DP", "OD"}
    /\ \E GasIn_mass \in FanGasIn, vn \in StateVals, vBPR \in StateVals,
          vb \in StateVals, fc \in MapFlowFactors, fd \in MapFlowFactors :
          LET w0 == reinit_system([World EXCEPT !.states = <<vn, vBPR, vb, vb>>])
              t  == TFan_Run(fan, w0, "OD", GasIn_mass,
                             (fan.Wdes_core_in * fc) \div One,
                             (fan.Wdes_duct_in * fd) \div One)
          IN  /\ fan' = t.fan
              /\ Store(t.w)
    /\ Mode' = "OD"
    /\ UNCHANGED fanframe

NextFan ==
    \/ Fan_DP
    \/ Fan_OD

SpecFan == InitFan /\ [][NextFan]_vars

\* C27: after every Run of the fan the two mass-flow residuals compare the
\* map flows with the inlet flow split at the design bypass ratio, and the
\* core and duct mass flows handed downstream are the inlet flow split at
\* the current bypass ratio (BPRdes at DP, states[istate_BPR] * BPRdes at
\* OD).
C27_FanSplits ==
    [][(Mode' \in {"DP", "OD"} /\ fan' # NoFan) =>
          /\ Mode' = "OD" =>
                /\ errors'[fan'.ierror_wc_core]
                      = ((fan'.W_core - SplitCore(fan'.GasIn_mass, BPRdes)) * One)
                           \div fan'.Wdes
                /\ errors'[fan'.ierror_wc_duct]
                      = ((fan'.W_duct - SplitDuct(fan'.GasIn_mass, BPRdes)) * One)
                           \div fan'.Wdes
          /\ fan'.GasOut_mass = SplitCore(fan'.GasIn_mass, fan'.BPR)
          /\ fan'.GasOut_duct_mass = SplitDuct(fan'.GasIn_mass, fan'.BPR)]_vars


\* -------------------------------------------------- reading a map file ----
\* A specification of TTurbineMap.ReadMap reading the keyword grids of a map
\* file one after the other with ReadNcBetaCrossTable.  The first token of a
\* grid's header line is a decimal number; it is held in units of 1e-4.

HeaderScale == 10000
\* the keyword grids in the order in which TTurbineMap.ReadMap reads them
Keywords == <<"MIN PRESSURE RATIO", "MAX PRESSURE RATIO", "MASS FLOW", "EFFICIENCY">>
\* first header tokens: 2.002, 2.021, 10.021, 3.0306 and 11.0194 (no token
\* whose fractional part times 1000 lies half way between two integers)
HeaderTokens == {20020, 20210, 100210, 30306, 110194}

\* divmod(float(items[0]), 1): the integer part and the fractional part
DivMod1(h) == [int |-> h \div HeaderScale, frac |-> h % HeaderScale]

\* ReadNcBetaCrossTable with betacount = round(betacount1 * 1000)
ReadNcBetaCrossTable_BetaNotReduced(file, keyword) ==
    LET d == DivMod1(file[keyword])
    IN  [keyword |-> keyword, header |-> file[keyword],
         nccount |-> d.int - 1,
         betacount |-> Round(d.frac * 1000, HeaderScale)]

\* ReadNcBetaCrossTable(file, keyword): the sizes of the arrays it returns,
\* nc_values of nccount entries and fval_array of nccount x betacount
ReadNcBetaCrossTable(file, keyword) ==
    LET d == DivMod1(file[keyword])
    IN  [keyword |-> keyword, header |-> file[keyword],
         nccount |-> d.int - 1,
         betacount |-> Round(d.frac * 1000, HeaderScale) - 1]

InitMap ==
    /\ mapfile \in [{Keywords[i] : i \in DOMAIN Keywords} -> HeaderTokens]
    /\ grids = <<>>
    /\ fan = NoFan
    /\ current_model = NoModel
    /\ api_result = NoCall
    /\ shaft_made_by = <<>>
    /\ ninstances = 0
    /\ turbo_components = <<>>
    /\ shaft_istate = <<>>
    /\ V = RDinlet
    /\ combustor_Wf = 0
    /\ returned = {}
    /\ control = NoControl
    /\ points_output_interval = 1
    /\ MapFileName = "present"
    /\ dpRaiseAt = 0
    /\ TurbineType = "GG"
    /\ Mode = "None"
    /\ states = <<>>
    /\ errors = <<>>
    /\ WF = 0
    /\ FG = 0
    /\ RD = 0
    /\ shaft_list = NewShafts
    /\ reg = [n \in RegNames |-> 0]
    /\ output_dict = NoOutput
    /\ OutputTable = <<>>
    /\ inputpoints = <<>>
    /\ pc = "idle"
    /\ k = 0
    /\ successcount = 0
    /\ failedcount = 0
    /\ x0 = <<>>
    /\ solution = NoSolution
    /\ result = NoResult
    /\ nruns = 0

\* the next self.ReadNcBetaCrossTable(self.mapfile, keyword) of ReadMap
ReadMap_NextGrid ==
    /\ Len(grids) < Len(Keywords)
    /\ grids' = Append(grids, ReadNcBetaCrossTable(mapfile, Keywords[Len(grids) + 1]))
    /\ UNCHANGED <<corevars, walkvars, fan, mapfile, apivars>>

NextMap == ReadMap_NextGrid

SpecMap == InitMap /\ [][NextMap]_vars

\* nearest integer to 1000 times the fractional part of the token h
Nearest1000Frac(h, n) ==
    /\ 2 * (10 * n - (h % HeaderScale)) < 10
    /\ 2 * ((h % HeaderScale) - 10 * n) < 10

\* C28 as stated: for every keyword grid read, Nc_count is the integer part
\* of the first header token minus 1 and beta_count is 1000 times its
\* fractional part.
C28_HeaderDecodingAsStated ==
    \A i \in DOMAIN grids :
        /\ grids[i].nccount + 1 = grids[i].header \div HeaderScale
        /\ Nearest1000Frac(grids[i].header, grids[i].betacount)

\* C28: for every keyword grid read, Nc_count is the integer part of the
\* first header token minus 1 and beta_count is 1000 times its fractional
\* part, rounded to the nearest integer, minus 1.
C28_HeaderDecoding ==
    \A i \in DOMAIN grids :
        /\ grids[i].keyword = Keywords[i]
        /\ grids[i].header = mapfile[Keywords[i]]
        /\ grids[i].nccount + 1 = grids[i].header \div HeaderScale
        /\ Nearest1000Frac(grids[i].header, grids[i].betacount + 1)

\* the four grids of a map file have been read, the mass-flow grid under the
\* header token 10.021 as 9 speed lines of 20 beta values, the efficiency
\* grid under 3.0306 as 2 speed lines of 30
C28_Witness ==
    /\ Len(grids) = Len(Keywords)
    /\ mapfile["MASS FLOW"] = 100210
    /\ grids[3].nccount = 9
    /\ grids[3].betacount = 20
    /\ mapfile["EFFICIENCY"] = 30306
    /\ grids[4].nccount = 2
    /\ grids[4].betacount = 30


\* -------------------------------------------------------------- the API ----
\* A specification of the calls a host program makes to gspy_api: initProg,
\* run and terminate, in any order.  The process starts with the core module
\* as it is at import: no component has been constructed, so fsys.shaft_list
\* is empty.

\* model instances initProg constructs in a behaviour
MaxInstances == 2

\* the 'model' argument of initProg: the turbojet of projects/turbojet_api,
\* no model, a model whose build_model declares a Control with a zero step
\* (its constructor raises) and one whose last component is of no known type
\* (resolve_component_class raises)
ApiModels == {"turbojet", "", "badcontrol", "badnozzle"}
\* the 'mode' argument of initProg
ApiModes == {"DP", "OD", "XX"}

\* position in build_model() of the component at which initialize raises
\* (0: nowhere)
InitializeRaisesAt(model_name) ==
    CASE model_name = "badcontrol" -> 2
      [] model_name = "badnozzle"  -> 8
      [] OTHER                     -> 0

\* the loop of initialize over build_model(): the constructor of a turbo
\* component (the compressor, position 4, is the first) appends a shaft to
\* fsys.shaft_list unless the list holds a shaft of its ShaftNr already
ConstructComponents(model_name, w, made_by, instance) ==
    LET at == InitializeRaisesAt(model_name)
        turbo == at = 0 \/ at > 4
        present == \E i \in DOMAIN w.shaft_list : w.shaft_list[i].ShaftNr = 1
    IN  IF turbo /\ ~present
        THEN [w |-> [w EXCEPT !.shaft_list = Append(@, [ShaftNr |-> 1, PW_sum |-> 0])],
              made_by |-> Append(made_by, instance)]
        ELSE [w |-> w, made_by |-> made_by]

apiframe == <<points_output_interval, dpRaiseAt, TurbineType, MapFileName,
              inputpoints, pc, k, successcount, failedcount, x0, solution,
              walkvars, fan, mapvars>>

\* an API call that raises before it has changed anything
ApiRaises(function, error) ==
    /\ api_result' = [function |-> function, error |-> error]
    /\ UNCHANGED <<current_model, shaft_made_by, ninstances, control, reg, Mode,
                   states, errors, WF, FG, RD, shaft_list, output_dict,
                   OutputTable, result, nruns>>

\* initProg(model = ..., mode = ...)
initProg ==
    /\ \E model_name \in ApiModels, mode \in ApiModes :
          IF current_model # NoModel
          THEN ApiRaises("initProg", "Model is already initialized")
          ELSE IF model_name = ""
          THEN ApiRaises("initProg", "Missing required parameter: model")
          ELSE IF mode \notin {"DP", "OD"}
          THEN ApiRaises("initProg", "Invalid mode")
          ELSE /\ ninstances < MaxInstances
               /\ ninstances' = ninstances + 1
               /\ LET c == ConstructComponents(model_name, World, shaft_made_by,
                                               ninstances + 1)
                  IN  /\ shaft_list' = c.w.shaft_list
                      /\ shaft_made_by' = c.made_by
               /\ IF InitializeRaisesAt(model_name) # 0
                  THEN /\ current_model' = [model_name |-> model_name,
                                            initialized |-> FALSE,
                                            instance |-> ninstances + 1,
                                            runs |-> 0]
                       /\ api_result' = [function |-> "initProg",
                                         error |-> "initialize raised"]
                       /\ UNCHANGED <<control, reg, Mode>>
                  ELSE /\ current_model' = [model_name |-> model_name,
                                            initialized |-> TRUE,
                                            instance |-> ninstances + 1,
                                            runs |-> 0]
                       /\ api_result' = [function |-> "initProg", error |-> "None"]
                       /\ control' = TControl_init(Wfdes, Wfdes, 8, -1, "None")
                       /\ reg' = [n \in RegNames |-> 0]
                       /\ Mode' = mode
               /\ UNCHANGED <<states, errors, WF, FG, RD, output_dict,
                              OutputTable, result, nruns>>
    /\ UNCHANGED apiframe

\* run(): _current_model.run(), which runs the simulation of the run mode;
\* no API function sets fsys.inputpoints, so an OD sweep has no point
run ==
    /\ IF current_model = NoModel
       THEN ApiRaises("run", "No model initialized")
       ELSE IF ~current_model.initialized
       THEN ApiRaises("run", "Model not initialized")
       ELSE /\ nruns < MaxRuns
            /\ nruns' = nruns + 1
            /\ current_model' = [current_model EXCEPT !.runs = @ + 1]
            /\ api_result' = [function |-> "run", error |-> "None"]
            /\ IF Mode = "DP"
               THEN /\ LET w0 == reinit_states_and_errors(World)
                           w1 == Do_Run(0, w0.states, w0, "DP", 0, 0)
                       IN  IF w1.raised
                           THEN Store(Do_Output([w1 EXCEPT !.raised = FALSE],
                                                ExceptionError))
                           ELSE Store(Do_Output(w1, NoError))
                    /\ UNCHANGED result
               ELSE /\ Store(reinit_states_and_errors(World))
                    /\ result' = [kind |-> "returned", value |-> 0, failed |-> 0]
            /\ UNCHANGED <<shaft_made_by, ninstances, control, Mode>>
    /\ UNCHANGED apiframe

\* terminate()
terminate ==
    /\ current_model' = NoModel
    /\ api_result' = [function |-> "terminate", error |-> "None"]
    /\ UNCHANGED <<shaft_made_by, ninstances, control, reg, Mode, states,
                   errors, WF, FG, RD, shaft_list, output_dict, OutputTable,
                   result, nruns>>
    /\ UNCHANGED apiframe

InitApi ==
    /\ control = NoControl
    /\ points_output_interval = 1
    /\ MapFileName = "present"
    /\ dpRaiseAt = 0
    /\ TurbineType = "GG"
    /\ Mode = "None"
    /\ states = <<>>
    /\ errors = <<>>
    /\ WF = 0
    /\ FG = 0
    /\ RD = 0
    /\ shaft_list = <<>>
    /\ reg = [n \in RegNames |-> 0]
    /\ output_dict = NoOutput
    /\ OutputTable = <<>>
    /\ inputpoints = <<>>
    /\ pc = "idle"
    /\ k = 0
    /\ successcount = 0
    /\ failedcount = 0
    /\ x0 = <<>>
    /\ solution = NoSolution
    /\ result = NoResult
    /\ nruns = 0
    /\ ExtIdle

NextApi ==
    \/ initProg
    \/ run
    \/ terminate

SpecApi == InitApi /\ [][NextApi]_vars

\* C29: an initProg that fails in the model's initialize leaves no model
\* registered as the current model, and the initProg call that follows it is
\* not rejected with 'Model is already initialized'.
C29_FailedInitProgLeavesNoModel ==
    [][/\ (api_result'.function = "initProg"
             /\ api_result'.error = "initialize raised")
          => current_model' = NoModel
       /\ (api_result.error = "initialize raised"
             /\ api_result'.function = "initProg")
          => api_result'.error # "Model is already initialized"]_vars

\* C30: the first design-point run of a model that initProg has set up after
\* a terminate leaves a core state with nothing of the models before it: the
\* state and error vectors hold the entries registered in this run, the
\* output table the row of this run, and the shaft list the shafts made by
\* the components of this model.
C30_NoLeftoversAfterTerminate ==
    [][(api_result'.function = "run" /\ api_result'.error = "None"
          /\ Mode = "DP" /\ current_model.instance > 1
          /\ current_model.runs = 0 /\ current_model'.runs = 1) =>
          /\ Len(states') = OtherStates
          /\ Len(errors') = OtherErrors
          /\ Len(OutputTable') = 1
          /\ \A i \in DOMAIN shaft_made_by' :
                shaft_made_by'[i] = current_model.instance]_vars

============================================================================
